---- MODULE Spec2Model ----
(***************************************************************************)
(* Requirement derivation pipeline of requirements-agent (src/src/engine.py):*)
(* condition parsing and evaluation, applicability rules, placeholder       *)
(* instantiation and the derivation loop of filter_and_instantiate, with    *)
(* the placeholder scan of the validator (src/src/validation.py).           *)
(*                                                                          *)
(* Python strings are sequences of one-character strings.  Profile values  *)
(* are tagged records (null, str, int, bool), a profile is a function from  *)
(* key strings to values.  A raised exception is a record with ok = FALSE   *)
(* (parse_simple_condition, float) or raised = TRUE (eval_condition).       *)
(***************************************************************************)
EXTENDS Integers, Sequences, FiniteSets, TLC

VARIABLES
    pc,                 \* position of the call in progress
    profile,            \* the profile argument
    cond,               \* the condition string argument
    parsed,             \* what parse_simple_condition returned
    result,             \* the ConditionResult returned
    when_list,          \* the rule argument of eval_when
    text,               \* the text argument of instantiate_text
    inst,               \* what instantiate_text returned
    template,           \* the template argument of filter_and_instantiate
    idx,                \* how many requirements its loop has taken from the template
    applicable,         \* its list applicable
    non_applicable,     \* its list non_applicable
    tbd_params_total,   \* its set tbd_params_total
    instance,           \* the instance it assembles
    args,               \* its keyword arguments and the template_id of the template
    req,                \* the req argument of validate_requirement_instance
    req_issues,         \* what validate_requirement_instance returned
    v_instance,         \* the instance argument of validate_instance
    validation,         \* what validate_instance returned
    rep_issues,         \* the validation issues of the instance given to build_report
    by_code,            \* the list by_code of the report build_report returned
    rep_instance,       \* the other keys of the instance given to build_report
    report,             \* the other keys of the report build_report returned
    report_again,       \* the report a second call on the same instance returned
    cli_args,           \* the command line arguments of main
    cli_out,            \* the files main has written and the exit code it returned
    runs,               \* the calls of filter_and_instantiate that run concurrently
    schema,             \* the profile schema of the agent's builder
    agent,              \* the profile and the pending field of the agent
    packages,           \* the packages run_and_package has written
    outcome,            \* what the last operation of the agent returned or raised
    streak              \* the apply_user_text calls with accepted replies in a row

condVars == <<cond, parsed>>

instVars == <<text, inst>>

deriveVars ==
    <<template, idx, applicable, non_applicable, tbd_params_total, instance, args>>

validateVars == <<req, req_issues, v_instance, validation>>

reportVars == <<rep_issues, by_code, rep_instance, report, report_again>>

mainVars == <<cli_args, cli_out>>

concurrentVars == <<runs>>

agentVars == <<schema, agent, packages, outcome, streak>>

vars ==
    <<pc, profile, cond, parsed, result, when_list, text, inst,
      template, idx, applicable, non_applicable, tbd_params_total, instance, args,
      req, req_issues, v_instance, validation, rep_issues, by_code,
      rep_instance, report, report_again, cli_args, cli_out, runs,
      schema, agent, packages, outcome, streak>>

(***************************************************************************)
(* Bounds of the model.                                                     *)
(***************************************************************************)
\* longest condition string enumerated for the condition evaluator
MaxCondLen == 5

\* longest rule (list of conditions) enumerated for eval_when
MaxWhen == 3

\* most pieces a text enumerated for instantiate_text is made of
MaxPieces == 4

\* most requirement sets of an enumerated template
MaxSets == 2

\* most requirements of an enumerated template, over all its sets
MaxReqs == 3

\* most pieces a requirement text enumerated for the validator is made of
MaxTextPieces == 3

\* most entries of an applicable_requirements list enumerated for validate_instance
MaxEntries == 2

\* the readings of the clock that generated_utc is taken from
MaxClock == 2

\* most requirements of a template of a concurrent call
MaxConcurrentReqs == 2

\* packages the agent writes in one run of the model
MaxPackages == 1

\* most requirements of a template enumerated for main
MaxMainReqs == 2

\* most issues of a validation enumerated for build_report
MaxIssues == 4

(***************************************************************************)
(* Strings.                                                                 *)
(***************************************************************************)
\* str.strip(), left part: drop leading whitespace
RECURSIVE LStrip(_)
LStrip(s) ==
    IF s # <<>> /\ Head(s) = " " THEN LStrip(Tail(s)) ELSE s

\* str.strip(), right part: drop trailing whitespace
RECURSIVE RStrip(_)
RStrip(s) ==
    IF s # <<>> /\ s[Len(s)] = " " THEN RStrip(SubSeq(s, 1, Len(s) - 1)) ELSE s

\* str.strip()
Strip(s) == RStrip(LStrip(s))

\* whether p occurs in s at index i
OccursAt(s, p, i) ==
    /\ i >= 1
    /\ i + Len(p) - 1 <= Len(s)
    /\ SubSeq(s, i, i + Len(p) - 1) = p

\* str.find, 1-based; 0 when p does not occur in s
Find(s, p) ==
    IF \E i \in 1..Len(s) : OccursAt(s, p, i)
    THEN CHOOSE i \in 1..Len(s) :
            /\ OccursAt(s, p, i)
            /\ \A j \in 1..(i - 1) : ~OccursAt(s, p, j)
    ELSE 0

\* the Python test "p in s" for a non-empty p
Contains(s, p) == Find(s, p) # 0

\* s.split(p, 1) for a p that occurs in s: the parts around its first occurrence
SplitOnce(s, p) ==
    LET i == Find(s, p)
    IN  <<SubSeq(s, 1, i - 1), SubSeq(s, i + Len(p), Len(s))>>

\* s.split(p): every part between occurrences of p (one part when p is absent)
RECURSIVE Split(_, _)
Split(s, p) ==
    IF Contains(s, p)
    THEN <<SplitOnce(s, p)[1]>> \o Split(SplitOnce(s, p)[2], p)
    ELSE <<s>>

\* the concatenation of a sequence of sequences
RECURSIVE Concat(_)
Concat(ss) == IF ss = <<>> THEN <<>> ELSE Head(ss) \o Concat(Tail(ss))

\* the keyword of an unconditional rule
ALWAYS == <<"a", "l", "w", "a", "y", "s">>

(***************************************************************************)
(* Profile values.                                                          *)
(***************************************************************************)
Null == [t |-> "null", s |-> <<>>, n |-> 0]
StrV(x) == [t |-> "str", s |-> x, n |-> 0]
IntV(x) == [t |-> "int", s |-> <<>>, n |-> x]
BoolV(b) == [t |-> "bool", s |-> <<>>, n |-> IF b THEN 1 ELSE 0]
\* a float without fraction
FloatV(x) == [t |-> "float", s |-> <<>>, n |-> x]

\* decimal digits of a natural number
RECURSIVE Digits(_)
Digits(n) ==
    LET d == <<"0", "1", "2", "3", "4", "5", "6", "7", "8", "9">>
    IN  IF n < 10 THEN <<d[n + 1]>> ELSE Digits(n \div 10) \o <<d[(n % 10) + 1]>>

\* str(value)
PyStr(v) ==
    CASE v.t = "str" -> v.s
      [] v.t = "int" -> IF v.n < 0 THEN <<"-">> \o Digits(-v.n) ELSE Digits(v.n)
      [] v.t = "bool" -> IF v.n = 1 THEN <<"T", "r", "u", "e">>
                                    ELSE <<"F", "a", "l", "s", "e">>
      [] v.t = "float" -> (IF v.n < 0 THEN <<"-">> \o Digits(-v.n) ELSE Digits(v.n))
                              \o <<".", "0">>
      [] OTHER -> <<"N", "o", "n", "e">>

DigitChars == {"0", "1", "2", "3", "4", "5", "6", "7", "8", "9"}

\* value of a non-empty digit string
RECURSIVE DigitsValue(_)
DigitsValue(s) ==
    LET v == CHOOSE k \in 0..9 : Digits(k) = <<s[Len(s)]>>
    IN  IF Len(s) = 1 THEN v ELSE 10 * DigitsValue(SubSeq(s, 1, Len(s) - 1)) + v

\* float(s) for a string: surrounding whitespace is ignored, an optional sign
\* and decimal digits are a number; anything else raises ValueError
PyFloatStr(s) ==
    LET b == Strip(s)
        neg == b # <<>> /\ Head(b) = "-"
        pos == b # <<>> /\ Head(b) = "+"
        d == IF neg \/ pos THEN Tail(b) ELSE b
    IN  IF d # <<>> /\ \A i \in 1..Len(d) : d[i] \in DigitChars
        THEN [ok |-> TRUE, n |-> IF neg THEN -DigitsValue(d) ELSE DigitsValue(d)]
        ELSE [ok |-> FALSE, n |-> 0]

\* float(value) for a profile value
PyFloat(v) ==
    CASE v.t = "str" -> PyFloatStr(v.s)
      [] v.t = "int" -> [ok |-> TRUE, n |-> v.n]
      [] v.t = "bool" -> [ok |-> TRUE, n |-> v.n]
      [] v.t = "float" -> [ok |-> TRUE, n |-> v.n]
      [] OTHER -> [ok |-> FALSE, n |-> 0]

\* the profile {}
EmptyProfile == [x \in {} |-> Null]

\* profile.get(key)
Get(p, key) == IF key \in DOMAIN p THEN p[key] ELSE Null

(***************************************************************************)
(* Condition evaluator.                                                     *)
(***************************************************************************)
\* a scan order that tries the one-character comparisons first
OPS_SingleFirst == << <<">">>, <<"<">>, <<">", "=">>, <<"<", "=">>, <<"=">> >>

\* the operators in the order parse_simple_condition tries them
OPS == << <<">", "=">>, <<"<", "=">>, <<">">>, <<"<">>, <<"=">> >>

NoParse(why) == [ok |-> FALSE, err |-> why, key |-> <<>>, op |-> <<>>, rhs |-> <<>>]

\* the loop of parse_simple_condition from the n-th operator on, c stripped
RECURSIVE ParseFrom(_, _)
ParseFrom(c, n) ==
    IF n > Len(OPS) THEN NoParse("no operator found")
    ELSE IF Contains(c, OPS[n])
    THEN LET parts == SplitOnce(c, OPS[n])
             key == Strip(parts[1])
             rhs == Strip(parts[2])
         IN  IF key = <<>> THEN NoParse("missing key")
             ELSE IF rhs = <<>> THEN NoParse("missing rhs")
             ELSE [ok |-> TRUE, err |-> "", key |-> key, op |-> OPS[n], rhs |-> rhs]
    ELSE ParseFrom(c, n + 1)

\* parse_simple_condition(cond); ok = FALSE stands for the ValueError raised
parse_simple_condition(c) == ParseFrom(Strip(c), 1)

ConditionResult(m, r) == [raised |-> FALSE, matched |-> m, reasons |-> r]

\* a comparison chain whose >= and <= are strict
CompareStrict(op, lhs, rhs_num) ==
    CASE op = <<">">> -> lhs > rhs_num
      [] op = <<">", "=">> -> lhs > rhs_num
      [] op = <<"<">> -> lhs < rhs_num
      [] op = <<"<", "=">> -> lhs < rhs_num
      [] OTHER -> FALSE

\* the comparison chain of eval_condition
Compare(op, lhs, rhs_num) ==
    CASE op = <<">">> -> lhs > rhs_num
      [] op = <<">", "=">> -> lhs >= rhs_num
      [] op = <<"<">> -> lhs < rhs_num
      [] op = <<"<", "=">> -> lhs <= rhs_num
      [] OTHER -> FALSE

\* an accepted list whose parts keep their surrounding whitespace
AcceptedUnstripped(rhs) == Split(rhs, <<"|">>)

\* the accepted list of an equality condition: the parts of rhs between "|", stripped
Accepted(rhs) ==
    [i \in 1..Len(Split(rhs, <<"|">>)) |-> Strip(Split(rhs, <<"|">>)[i])]

\* an evaluator without the except clause: the ValueError escapes
OnValueErrorEscapes(q, c) == [raised |-> TRUE, matched |-> FALSE, reasons |-> <<>>]

\* the except clause of eval_condition: the ValueError becomes a non-match
OnValueError(q, c) == ConditionResult(FALSE, << <<"Invalid condition", q.err, c>> >>)

\* eval_condition(profile, cond)
eval_condition(p, c0) ==
    LET c == Strip(c0)
        q == parse_simple_condition(c)
        value == Get(p, q.key)
        accepted == Accepted(q.rhs)
        lhs == PyFloat(value)
        rhs_num == PyFloatStr(q.rhs)
    IN  IF c = ALWAYS THEN ConditionResult(TRUE, <<>>)
        ELSE IF ~q.ok THEN OnValueError(q, c)
        ELSE IF value = Null
        THEN ConditionResult(FALSE, << <<"Missing profile value", q.key>> >>)
        ELSE IF q.op = <<"=">>
        THEN IF \E i \in 1..Len(accepted) : accepted[i] = PyStr(value)
             THEN ConditionResult(TRUE, <<>>)
             ELSE ConditionResult(FALSE, << <<"not in", q.key, value, accepted>> >>)
        ELSE IF ~lhs.ok \/ ~rhs_num.ok
        THEN ConditionResult(FALSE, << <<"Non-numeric compare", q.key, q.op, q.rhs, value>> >>)
        ELSE IF Compare(q.op, lhs.n, rhs_num.n)
        THEN ConditionResult(TRUE, <<>>)
        ELSE ConditionResult(FALSE, << <<"not", q.key, lhs.n, q.op, rhs_num.n>> >>)

\* a loop of eval_when that stops at the first failed condition
RECURSIVE WhenLoopShortCircuit(_, _)
WhenLoopShortCircuit(p, wl) ==
    IF wl = <<>> THEN <<>>
    ELSE LET r == eval_condition(p, Head(wl))
         IN  IF ~r.matched
             THEN (IF r.reasons # <<>> THEN r.reasons
                                       ELSE << <<"Failed condition", Head(wl)>> >>)
             ELSE WhenLoopShortCircuit(p, Tail(wl))

\* the loop of eval_when: the reasons collected over the conditions of the rule
RECURSIVE WhenLoop(_, _)
WhenLoop(p, wl) ==
    IF wl = <<>> THEN <<>>
    ELSE LET r == eval_condition(p, Head(wl))
         IN  (IF ~r.matched
              THEN (IF r.reasons # <<>> THEN r.reasons
                                        ELSE << <<"Failed condition", Head(wl)>> >>)
              ELSE <<>>) \o WhenLoop(p, Tail(wl))

\* eval_when(profile, when_list)
eval_when(p, wl) ==
    LET reasons == WhenLoop(p, wl)
    IN  ConditionResult(reasons = <<>>, reasons)

(***************************************************************************)
(* Text instantiator.                                                       *)
(***************************************************************************)
LowerLetters ==
    {"a", "b", "c", "d", "e", "f", "g", "h", "i", "j", "k", "l", "m",
     "n", "o", "p", "q", "r", "s", "t", "u", "v", "w", "x", "y", "z"}

UpperLetters ==
    {"A", "B", "C", "D", "E", "F", "G", "H", "I", "J", "K", "L", "M",
     "N", "O", "P", "Q", "R", "S", "T", "U", "V", "W", "X", "Y", "Z"}

\* [a-zA-Z_]
IsIdStart(ch) == ch \in LowerLetters \cup UpperLetters \cup {"_"}

\* [a-zA-Z0-9_]
IsIdChar(ch) == IsIdStart(ch) \/ ch \in DigitChars

\* \s* from index i: the index of the first character that is not whitespace
RECURSIVE SkipWs(_, _)
SkipWs(s, i) == IF i <= Len(s) /\ s[i] = " " THEN SkipWs(s, i + 1) ELSE i

\* [a-zA-Z0-9_]* from index i: the index of the first character after the run
RECURSIVE SkipId(_, _)
SkipId(s, i) == IF i <= Len(s) /\ IsIdChar(s[i]) THEN SkipId(s, i + 1) ELSE i

NoMatch == [ok |-> FALSE, name |-> <<>>, last |-> 0]

\* a match of _PLACEHOLDER_RE that starts at index i: its group 1 and its last
\* index.  Whitespace, identifier characters and braces are disjoint classes,
\* so the greedy match is the only one.
MatchAt(s, i) ==
    IF ~OccursAt(s, <<"{", "{">>, i) THEN NoMatch
    ELSE LET a == SkipWs(s, i + 2)
         IN  IF a > Len(s) \/ ~IsIdStart(s[a]) THEN NoMatch
             ELSE LET b == SkipId(s, a)
                      c == SkipWs(s, b)
                  IN  IF OccursAt(s, <<"}", "}">>, c)
                      THEN [ok |-> TRUE, name |-> SubSeq(s, a, b - 1), last |-> c + 1]
                      ELSE NoMatch

\* used[key] = val
DictSet(d, key, val) ==
    [k \in DOMAIN d \cup {key} |-> IF k = key THEN val ELSE d[k]]

EmptyDict == [k \in {} |-> Null]

\* the marker repl returns for a name without value: f"{{{{{key}}}}}"
Placeholder(key) == <<"{", "{">> \o key \o <<"}", "}">>

\* repl(m) of instantiate_text for a match whose group 1 is key, applied to
\* the output, the used map and the tbd list built so far
Repl(acc, p, key) ==
    LET val == Get(p, key)
    IN  IF val = Null
        THEN [out |-> acc.out \o Placeholder(key),
              used |-> acc.used,
              tbd |-> IF \E i \in 1..Len(acc.tbd) : acc.tbd[i] = key
                      THEN acc.tbd ELSE Append(acc.tbd, key)]
        ELSE [out |-> acc.out \o PyStr(val),
              used |-> DictSet(acc.used, key, val),
              tbd |-> acc.tbd]

\* _PLACEHOLDER_RE.sub(repl, text) from index i on: matches are taken leftmost
\* and do not overlap, other characters are copied
RECURSIVE Sub(_, _, _, _)
Sub(s, p, i, acc) ==
    IF i > Len(s) THEN acc
    ELSE LET m == MatchAt(s, i)
         IN  IF m.ok
             THEN Sub(s, p, m.last + 1, Repl(acc, p, m.name))
             ELSE Sub(s, p, i + 1, [acc EXCEPT !.out = @ \o <<s[i]>>])

\* instantiate_text(text, profile): (instantiated, used, tbd)
instantiate_text(s, p) ==
    Sub(s, p, 1, [out |-> <<>>, used |-> EmptyDict, tbd |-> <<>>])

NoInst == [out |-> <<>>, used |-> EmptyDict, tbd |-> <<>>]

\* set(m.group(1) for m in _PLACEHOLDER_RE.finditer(text)), from index i on:
\* the names the validator finds in a requirement text
RECURSIVE FindIterNames(_, _)
FindIterNames(s, i) ==
    IF i > Len(s) THEN {}
    ELSE LET m == MatchAt(s, i)
         IN  IF m.ok THEN {m.name} \cup FindIterNames(s, m.last + 1)
             ELSE FindIterNames(s, i + 1)

(***************************************************************************)
(* Quality validator (src/src/validation.py).                               *)
(*                                                                          *)
(* The fields of a requirement are Python values: besides null, str, int    *)
(* and bool a value may be absent (the key is not in the dict), a list or a *)
(* dict, whose items or keys are in the field s.                            *)
(***************************************************************************)
Absent == [t |-> "absent", s |-> <<>>, n |-> 0]
ListV(items) == [t |-> "list", s |-> items, n |-> 0]

\* bool(v): the truth value Python gives a value
Truthy(v) ==
    CASE v.t \in {"absent", "null"} -> FALSE
      [] v.t \in {"int", "bool", "float"} -> v.n # 0
      [] OTHER -> v.s # <<>>

\* d.get(key, default) or default
GetOr(v, default) == IF Truthy(v) THEN v ELSE default

\* d.get(key, default)
GetDefault(v, default) == IF v.t = "absent" THEN default ELSE v

\* the characters of the model in code point order
CodePoints ==
    <<" ", ".", "/", "0", "1", "2", "3", "4", "5", "6", "7", "8", "9",
      "<", "=", ">",
      "A", "B", "C", "D", "E", "F", "G", "H", "I", "J", "K", "L", "M",
      "N", "O", "P", "Q", "R", "S", "T", "U", "V", "W", "X", "Y", "Z", "_",
      "a", "b", "c", "d", "e", "f", "g", "h", "i", "j", "k", "l", "m",
      "n", "o", "p", "q", "r", "s", "t", "u", "v", "w", "x", "y", "z",
      "{", "|", "}">>

\* a < b for two strings: at the first index where they differ the character
\* of a has the lower code point, or a is a proper prefix of b
RECURSIVE StrLess(_, _)
StrLess(a, b) ==
    IF b = <<>> THEN FALSE
    ELSE IF a = <<>> THEN TRUE
    ELSE IF Head(a) = Head(b) THEN StrLess(Tail(a), Tail(b))
    ELSE (CHOOSE i \in 1..Len(CodePoints) : CodePoints[i] = Head(a))
             < (CHOOSE i \in 1..Len(CodePoints) : CodePoints[i] = Head(b))

\* sorted(S) for a set of strings
RECURSIVE SortedStrings(_)
SortedStrings(S) ==
    IF S = {} THEN <<>>
    ELSE LET m == CHOOSE x \in S : \A y \in S \ {x} : StrLess(x, y)
         IN  <<m>> \o SortedStrings(S \ {m})

UpperAlphabet ==
    <<"A", "B", "C", "D", "E", "F", "G", "H", "I", "J", "K", "L", "M",
      "N", "O", "P", "Q", "R", "S", "T", "U", "V", "W", "X", "Y", "Z">>

LowerAlphabet ==
    <<"a", "b", "c", "d", "e", "f", "g", "h", "i", "j", "k", "l", "m",
      "n", "o", "p", "q", "r", "s", "t", "u", "v", "w", "x", "y", "z">>

\* a lowering that leaves every character as it is
LowerKeepsCase(s) == s

\* str.lower()
RECURSIVE Lower(_)
Lower(s) ==
    IF s = <<>> THEN <<>>
    ELSE (IF Head(s) \in UpperLetters
          THEN <<LowerAlphabet[CHOOSE k \in 1..Len(UpperAlphabet) : UpperAlphabet[k] = Head(s)]>>
          ELSE <<Head(s)>>) \o Lower(Tail(s))

\* str.count(p): the occurrences of p in s that do not overlap, from the left
RECURSIVE Count(_, _)
Count(s, p) == IF Contains(s, p) THEN 1 + Count(SplitOnce(s, p)[2], p) ELSE 0

\* the code of an issue as a string of characters, given by its name
Code(name) ==
    CASE name = "REQ_VERIFICATION_METHOD_MISSING" ->
             <<"R", "E", "Q", "_", "V", "E", "R", "I", "F", "I", "C", "A",
               "T", "I", "O", "N", "_", "M", "E", "T", "H", "O", "D", "_",
               "M", "I", "S", "S", "I", "N", "G">>
      [] name = "REQ_VERIFICATION_ACCEPTANCE_MISSING" ->
             <<"R", "E", "Q", "_", "V", "E", "R", "I", "F", "I", "C", "A",
               "T", "I", "O", "N", "_", "A", "C", "C", "E", "P", "T", "A",
               "N", "C", "E", "_", "M", "I", "S", "S", "I", "N", "G">>
      [] name = "REQ_SHALL_NOT_FOUND" ->
             <<"R", "E", "Q", "_", "S", "H", "A", "L", "L", "_", "N", "O",
               "T", "_", "F", "O", "U", "N", "D">>
      [] name = "REQ_PLACEHOLDER_UNTRACKED" ->
             <<"R", "E", "Q", "_", "P", "L", "A", "C", "E", "H", "O", "L",
               "D", "E", "R", "_", "U", "N", "T", "R", "A", "C", "K", "E",
               "D">>
      [] name = "REQ_PLACEHOLDER_TBD" ->
             <<"R", "E", "Q", "_", "P", "L", "A", "C", "E", "H", "O", "L",
               "D", "E", "R", "_", "T", "B", "D">>
      [] name = "REQ_ATOMICITY_ANDOR" ->
             <<"R", "E", "Q", "_", "A", "T", "O", "M", "I", "C", "I", "T",
               "Y", "_", "A", "N", "D", "O", "R">>
      [] name = "REQ_ATOMICITY_MULTI_SHALL" ->
             <<"R", "E", "Q", "_", "A", "T", "O", "M", "I", "C", "I", "T",
               "Y", "_", "M", "U", "L", "T", "I", "_", "S", "H", "A", "L",
               "L">>
      [] name = "REQ_ATOMICITY_CONJUNCTION" ->
             <<"R", "E", "Q", "_", "A", "T", "O", "M", "I", "C", "I", "T",
               "Y", "_", "C", "O", "N", "J", "U", "N", "C", "T", "I", "O",
               "N">>
      [] name = "INSTANCE_APPLICABLE_NOT_LIST" ->
             <<"I", "N", "S", "T", "A", "N", "C", "E", "_", "A", "P", "P",
               "L", "I", "C", "A", "B", "L", "E", "_", "N", "O", "T", "_",
               "L", "I", "S", "T">>
      [] name = "INSTANCE_REQ_NOT_OBJECT" ->
             <<"I", "N", "S", "T", "A", "N", "C", "E", "_", "R", "E", "Q",
               "_", "N", "O", "T", "_", "O", "B", "J", "E", "C", "T">>

\* ValidationIssue(severity, code, message, requirement_id)
ValidationIssue(sev, code, msg, rid) ==
    [severity |-> sev, code |-> code, message |-> msg, requirement_id |-> rid]

\* a message: its fixed wording, and the names and the count an f-string puts in
Msg(wording, names, count) == [wording |-> wording, names |-> names, count |-> count]

\* " shall ", the term _has_shall and _atomicity_warnings look for
SHALL_SPACED == <<" ", "s", "h", "a", "l", "l", " ">>

ANDOR == <<"a", "n", "d", "/", "o", "r">>

PROGRAMMATIC == <<"p", "r", "o", "g", "r", "a", "m", "m", "a", "t", "i", "c">>

\* _has_shall(text)
_has_shall(s) == Contains(<<" ">> \o Lower(s) \o <<" ">>, SHALL_SPACED)

\* \bw\b matches s at index i: w occurs there with no word character on
\* either side
WordAt(s, w, i) ==
    /\ OccursAt(s, w, i)
    /\ (i = 1 \/ ~IsIdChar(s[i - 1]))
    /\ (i + Len(w) > Len(s) \/ ~IsIdChar(s[i + Len(w)]))

\* re.search(r"\bshall\b.*\band\b.*\bshall\b", tl)
ConjunctionSearch(tl) ==
    LET shall == <<"s", "h", "a", "l", "l">>
        and == <<"a", "n", "d">>
    IN  \E i \in 1..Len(tl) :
            /\ WordAt(tl, shall, i)
            /\ \E j \in (i + Len(shall))..Len(tl) :
                  /\ WordAt(tl, and, j)
                  /\ \E k \in (j + Len(and))..Len(tl) : WordAt(tl, shall, k)

\* _atomicity_warnings(text); the issues carry no requirement_id yet
_atomicity_warnings(s) ==
    LET tl == Lower(s)
        shall_count == Count(tl, SHALL_SPACED)
    IN  (IF Contains(tl, ANDOR)
         THEN <<ValidationIssue("warning", Code("REQ_ATOMICITY_ANDOR"),
                                Msg("contains 'and/or'", <<>>, 0), Null)>>
         ELSE <<>>)
        \o (IF shall_count > 1
            THEN <<ValidationIssue("warning", Code("REQ_ATOMICITY_MULTI_SHALL"),
                                   Msg("occurrences of 'shall'", <<>>, shall_count), Null)>>
            ELSE <<>>)
        \o (IF ConjunctionSearch(tl)
            THEN <<ValidationIssue("warning", Code("REQ_ATOMICITY_CONJUNCTION"),
                                   Msg("may be compound", <<>>, 0), Null)>>
            ELSE <<>>)

\* a verification dict, and a value that is no dict in its place
VerDict(method, acceptance) == [t |-> "dict", method |-> method, acceptance |-> acceptance]
VerOther(t) == [t |-> t, method |-> Absent, acceptance |-> Absent]

\* req.get("verification", {}) or {}: an absent or null verification is {}; a
\* dict is kept, and so is a true value that is no dict
VerificationOf(r) ==
    IF r.verification.t \in {"absent", "null"}
    THEN VerDict(Absent, Absent) ELSE r.verification

\* a requirement dict, and an entry of applicable_requirements that is no dict
Req(id, txt, type, verification, tbd) ==
    [t |-> "dict", id |-> id, text |-> txt, type |-> type,
     verification |-> verification, tbd_parameters |-> tbd]

NotObject ==
    [t |-> "str", id |-> Absent, text |-> Absent, type |-> Absent,
     verification |-> VerOther("absent"), tbd_parameters |-> Absent]

\* "p in tbd" for a list, a string or a dict
In(p, tbd) ==
    CASE tbd.t = "list" -> \E i \in 1..Len(tbd.s) : tbd.s[i] = p
      [] tbd.t = "dict" -> \E i \in 1..Len(tbd.s) : tbd.s[i] = p
      [] tbd.t = "str" -> Contains(tbd.s, p)
      [] OTHER -> FALSE

\* whether validate_requirement_instance raises: verification.get on a value
\* that is no dict (AttributeError), a type that cannot be hashed (TypeError),
\* text.lower() or finditer on a value that is no string (AttributeError,
\* TypeError), "p not in tbd" on a number (TypeError)
Raises(r) ==
    LET txt == GetOr(r.text, StrV(<<>>))
        rtype == GetOr(r.type, StrV(<<>>))
        tbd == GetOr(r.tbd_parameters, ListV(<<>>))
    IN  \/ VerificationOf(r).t # "dict"
        \/ rtype.t \in {"list", "dict"}
        \/ txt.t # "str"
        \/ (FindIterNames(txt.s, 1) # {} /\ tbd.t \in {"int", "bool"})

\* steps 1 of validate_requirement_instance run one after the other: the
\* acceptance is looked at only when the method list is in order
VerificationChecksElif(verification, rid) ==
    LET methods == GetDefault(verification.method, ListV(<<>>))
        acceptance == GetDefault(verification.acceptance, StrV(<<>>))
    IN  IF methods.t # "list" \/ Len(methods.s) = 0
        THEN <<ValidationIssue("error", Code("REQ_VERIFICATION_METHOD_MISSING"),
                               Msg("Verification.method must be a non-empty list.", <<>>, 0),
                               rid)>>
        ELSE IF acceptance.t # "str" \/ Strip(acceptance.s) = <<>>
        THEN <<ValidationIssue("error", Code("REQ_VERIFICATION_ACCEPTANCE_MISSING"),
                               Msg("Verification.acceptance must be a non-empty string.",
                                   <<>>, 0),
                               rid)>>
        ELSE <<>>

\* step 1 of validate_requirement_instance: verification method and acceptance
VerificationChecks(verification, rid) ==
    LET methods == GetDefault(verification.method, ListV(<<>>))
        acceptance == GetDefault(verification.acceptance, StrV(<<>>))
    IN  (IF methods.t # "list" \/ Len(methods.s) = 0
         THEN <<ValidationIssue("error", Code("REQ_VERIFICATION_METHOD_MISSING"),
                                Msg("Verification.method must be a non-empty list.", <<>>, 0),
                                rid)>>
         ELSE <<>>)
        \o (IF acceptance.t # "str" \/ Strip(acceptance.s) = <<>>
            THEN <<ValidationIssue("error", Code("REQ_VERIFICATION_ACCEPTANCE_MISSING"),
                                   Msg("Verification.acceptance must be a non-empty string.",
                                       <<>>, 0),
                                   rid)>>
            ELSE <<>>)

\* step 2: the 'shall' heuristic, from which the type programmatic is exempt
ShallCheck(rtype, s, rid) ==
    IF rtype # StrV(PROGRAMMATIC) /\ ~_has_shall(s)
    THEN <<ValidationIssue("warning", Code("REQ_SHALL_NOT_FOUND"),
                           Msg("Requirement text does not contain 'shall'", <<>>, 0), rid)>>
    ELSE <<>>

\* a step 3 that takes a placeholder for tracked as soon as one name is listed
PlaceholderCheckAnyTracked(s, tbd, rid) ==
    LET unresolved == SortedStrings(FindIterNames(s, 1))
        missing_from_tbd == SelectSeq(unresolved, LAMBDA p : ~In(p, tbd))
    IN  IF unresolved = <<>> THEN <<>>
        ELSE IF missing_from_tbd = unresolved
        THEN <<ValidationIssue("error", Code("REQ_PLACEHOLDER_UNTRACKED"),
                               Msg("not tracked in tbd_parameters", missing_from_tbd, 0),
                               rid)>>
        ELSE <<ValidationIssue("warning", Code("REQ_PLACEHOLDER_TBD"),
                               Msg("require inputs", unresolved, 0), rid)>>

\* step 3: unresolved placeholders must be listed as TBD
PlaceholderCheck(s, tbd, rid) ==
    LET unresolved == SortedStrings(FindIterNames(s, 1))
        missing_from_tbd == SelectSeq(unresolved, LAMBDA p : ~In(p, tbd))
    IN  IF unresolved = <<>> THEN <<>>
        ELSE IF missing_from_tbd # <<>>
        THEN <<ValidationIssue("error", Code("REQ_PLACEHOLDER_UNTRACKED"),
                               Msg("not tracked in tbd_parameters", missing_from_tbd, 0),
                               rid)>>
        ELSE <<ValidationIssue("warning", Code("REQ_PLACEHOLDER_TBD"),
                               Msg("require inputs", unresolved, 0), rid)>>

\* step 4: the atomicity warnings, each given the requirement_id
AtomicityChecks(s, rid) ==
    LET found == _atomicity_warnings(s)
    IN  [i \in 1..Len(found) |-> [found[i] EXCEPT !.requirement_id = rid]]

\* validate_requirement_instance(req): the issues, or raised = TRUE for the
\* exception that escapes
validate_requirement_instance(r) ==
    LET rid == GetDefault(r.id, Null)
        txt == GetOr(r.text, StrV(<<>>))
        rtype == GetOr(r.type, StrV(<<>>))
        tbd == GetOr(r.tbd_parameters, ListV(<<>>))
    IN  IF Raises(r) THEN [raised |-> TRUE, issues |-> <<>>]
        ELSE [raised |-> FALSE,
              issues |-> VerificationChecks(VerificationOf(r), rid)
                             \o ShallCheck(rtype, txt.s, rid)
                             \o PlaceholderCheck(txt.s, tbd, rid)
                             \o AtomicityChecks(txt.s, rid)]

\* the issues of a severity
OfSeverity(issues, sev) == SelectSeq(issues, LAMBDA i : i.severity = sev)

\* an overall status that fails on warnings too
OverallFailsOnWarnings(issues) ==
    IF Len(OfSeverity(issues, "error")) + Len(OfSeverity(issues, "warning")) > 0
    THEN "fail" ELSE "pass"

\* overall = "fail" if error_count > 0 else "pass"
Overall(issues) == IF Len(OfSeverity(issues, "error")) > 0 THEN "fail" ELSE "pass"

\* the dict of an issue: requirement_id is a key only when it is true
IssueDict(i) ==
    [i EXCEPT !.requirement_id = IF Truthy(i.requirement_id) THEN i.requirement_id ELSE Absent]

\* the validation object built from the issues
ValidationObject(issues) ==
    [raised |-> FALSE,
     overall_status |-> Overall(issues),
     error_count |-> Len(OfSeverity(issues, "error")),
     warning_count |-> Len(OfSeverity(issues, "warning")),
     info_count |-> Len(OfSeverity(issues, "info")),
     issue_count |-> Len(issues),
     issues |-> [n \in 1..Len(issues) |-> IssueDict(issues[n])]]

\* stands for the exception that escapes validate_instance
ValidationRaised ==
    [raised |-> TRUE, overall_status |-> "", error_count |-> 0, warning_count |-> 0,
     info_count |-> 0, issue_count |-> 0, issues |-> <<>>]

\* the validation object before validate_instance is called
NoValidation ==
    [raised |-> FALSE, overall_status |-> "", error_count |-> 0, warning_count |-> 0,
     info_count |-> 0, issue_count |-> 0, issues |-> <<>>]

\* a value of the key applicable_requirements: its type, its entries when it
\* is a list, and its length (its value, when it is a number)
AppV(t, entries, n) == [t |-> t, s |-> entries, n |-> n]

\* bool(a) for such a value
TruthyApp(a) == a.t \notin {"absent", "null"} /\ a.n # 0

\* instance.get("applicable_requirements", []) or [], and the issue raised when
\* it is no list
ApplicableOf(a) == IF TruthyApp(a) /\ a.t = "list" THEN a.s ELSE <<>>

StructuralIssues(a) ==
    IF TruthyApp(a) /\ a.t # "list"
    THEN <<ValidationIssue("error", Code("INSTANCE_APPLICABLE_NOT_LIST"),
                           Msg("applicable_requirements must be a list.", <<>>, 0), Null)>>
    ELSE <<>>

\* the loop of validate_instance over the entries, from the first on
RECURSIVE EntryIssues(_)
EntryIssues(entries) ==
    IF entries = <<>> THEN [raised |-> FALSE, issues |-> <<>>]
    ELSE LET first == IF Head(entries).t # "dict"
                      THEN [raised |-> FALSE,
                            issues |-> <<ValidationIssue("error", Code("INSTANCE_REQ_NOT_OBJECT"),
                                            Msg("Each applicable requirement must be an object.",
                                                <<>>, 0),
                                            Null)>>]
                      ELSE validate_requirement_instance(Head(entries))
             rest == EntryIssues(Tail(entries))
         IN  [raised |-> first.raised \/ rest.raised, issues |-> first.issues \o rest.issues]

\* validate_instance(instance), given the value of its applicable_requirements
validate_instance(a) ==
    LET found == EntryIssues(ApplicableOf(a))
    IN  IF found.raised THEN ValidationRaised
        ELSE ValidationObject(StructuralIssues(a) \o found.issues)

(***************************************************************************)
(* Report aggregator (src/src/reporting.py).                                *)
(***************************************************************************)
\* stands for a key that an issue dict does not have
NoKey == "(no key)"

\* key = (severity, code), with severity = issue.get("severity", "unknown") and
\* code = issue.get("code", "UNKNOWN")
KeyOf(i) ==
    <<IF i.severity = NoKey THEN "unknown" ELSE i.severity,
      IF i.code = <<NoKey>> THEN <<"U", "N", "K", "N", "O", "W", "N">> ELSE i.code>>

\* the keys of grouped, in the order the loop over the issues creates them
RECURSIVE GroupKeys(_)
GroupKeys(issues) ==
    IF issues = <<>> THEN <<>>
    ELSE LET before == GroupKeys(SubSeq(issues, 1, Len(issues) - 1))
             key == KeyOf(issues[Len(issues)])
         IN  IF \E n \in 1..Len(before) : before[n] = key
             THEN before ELSE Append(before, key)

\* the entry of by_code for a key: what the loop has put in grouped[key]; a
\* message is appended while the group has fewer than three
GroupOf(issues, key) ==
    LET mine == SelectSeq(issues, LAMBDA i : KeyOf(i) = key)
        with_rid == SelectSeq(mine, LAMBDA i : Truthy(i.requirement_id))
        with_msg == SelectSeq(mine, LAMBDA i : i.message.wording # "")
    IN  [severity |-> key[1],
         code |-> key[2],
         count |-> Len(mine),
         requirement_ids |->
             SortedStrings({with_rid[n].requirement_id.s : n \in 1..Len(with_rid)}),
         message_examples |->
             [n \in 1..(IF Len(with_msg) < 3 THEN Len(with_msg) ELSE 3) |-> with_msg[n].message]]

\* a precedence that puts the unknown severities first
SevOrderUnknownFirst(sev) ==
    CASE sev = "error" -> 0
      [] sev = "warning" -> 1
      [] sev = "info" -> 2
      [] OTHER -> -1

\* sev_order.get(severity, 99)
SevOrder(sev) ==
    CASE sev = "error" -> 0
      [] sev = "warning" -> 1
      [] sev = "info" -> 2
      [] OTHER -> 99

\* the sort key of g is less than that of h
KeyLess(g, h) ==
    \/ SevOrder(g.severity) < SevOrder(h.severity)
    \/ /\ SevOrder(g.severity) = SevOrder(h.severity)
       /\ StrLess(g.code, h.code)

\* g put into a sorted list, after the entries whose key is not greater
RECURSIVE Insert(_, _)
Insert(sorted, g) ==
    IF sorted = <<>> THEN <<g>>
    ELSE IF KeyLess(g, Head(sorted)) THEN <<g>> \o sorted
    ELSE <<Head(sorted)>> \o Insert(Tail(sorted), g)

\* list.sort(key=...): stable, entries of equal key keep their order
RECURSIVE StableSort(_)
StableSort(l) ==
    IF l = <<>> THEN <<>>
    ELSE Insert(StableSort(SubSeq(l, 1, Len(l) - 1)), l[Len(l)])

\* a by_code made from a grouped table that is kept between the calls: the
\* second call on an instance counts its issues a second time
build_report_keeps_grouped(issues) ==
    LET all == IF pc = "reported" THEN issues \o issues ELSE issues
    IN  StableSort([n \in 1..Len(GroupKeys(all)) |-> GroupOf(all, GroupKeys(all)[n])])

\* the by_code list of build_report(instance), given the validation issues
build_report(issues) ==
    StableSort([n \in 1..Len(GroupKeys(issues)) |-> GroupOf(issues, GroupKeys(issues)[n])])

\* str.endswith(suffix)
EndsWith(s, suffix) ==
    /\ Len(s) >= Len(suffix)
    /\ SubSeq(s, Len(s) - Len(suffix) + 1, Len(s)) = suffix

PROFILE_SUFFIX == <<"_", "p", "r", "o", "f", "i", "l", "e">>
TAG_SUFFIX == <<"_", "t", "a", "g">>
VALVE == <<"v", "a", "l", "v", "e">>
VALVE_TAG == VALVE \o TAG_SUFFIX
A_TAG == <<"a">> \o TAG_SUFFIX

\* a top-level value of an instance that is a dict, with its keys
TopDict(fields) == [t |-> "dict", fields |-> fields]

\* the keys of an instance that build_report reads besides the issues: the
\* top-level keys that may hold a profile, whether there is a validation
\* object, that object, and the three identifying keys
RepInstance(top, validated, issues) ==
    [top |-> top,
     validated |-> validated,
     validation |-> IF validated THEN ValidationObject(issues) ELSE NoValidation,
     instance_id |-> IF validated THEN StrV(<<"i", "d">>) ELSE Absent,
     template_id |-> IF validated THEN StrV(<<"t">>) ELSE Absent,
     generated_utc |-> IF validated THEN StrV(<<"Z">>) ELSE Absent]

\* d.get(key): None for a key the dict does not have
GetNone(v) == IF v.t = "absent" THEN Null ELSE v

\* _detect_profile(instance): the smallest top-level key that ends with
\* _profile and holds a dict, with that dict; None and {} when there is none
_detect_profile(top) ==
    LET candidates == {k \in DOMAIN top : EndsWith(k, PROFILE_SUFFIX) /\ top[k].t = "dict"}
    IN  IF candidates = {} THEN [key |-> Null, profile |-> EmptyProfile]
        ELSE LET first == SortedStrings(candidates)[1]
             IN  [key |-> StrV(first), profile |-> top[first].fields]

\* _detect_tag_field(profile): the smallest key that ends with _tag and holds
\* a true value; None when there is none
_detect_tag_field(p) ==
    LET tag_keys == {k \in DOMAIN p : EndsWith(k, TAG_SUFFIX) /\ Truthy(p[k])}
    IN  IF tag_keys = {} THEN Null ELSE StrV(SortedStrings(tag_keys)[1])

\* counts that take issue_count for the number of errors and warnings
ReportCountsWithoutInfo(ri) ==
    [error_count |-> IF ri.validated THEN ri.validation.error_count ELSE 0,
     warning_count |-> IF ri.validated THEN ri.validation.warning_count ELSE 0,
     info_count |-> IF ri.validated THEN ri.validation.info_count ELSE 0,
     issue_count |->
         IF ri.validated
         THEN ri.validation.error_count + ri.validation.warning_count ELSE 0]

\* the counts of the report: int(validation.get(name, 0) or 0) for the four
\* counts of the validation object, 0 without one
ReportCounts(ri) ==
    [error_count |-> IF ri.validated THEN ri.validation.error_count ELSE 0,
     warning_count |-> IF ri.validated THEN ri.validation.warning_count ELSE 0,
     info_count |-> IF ri.validated THEN ri.validation.info_count ELSE 0,
     issue_count |-> IF ri.validated THEN ri.validation.issue_count ELSE 0]

\* a status that fails a report without tag
ReportStatusNeedsTag(ri, tag_value) ==
    IF ~ri.validated THEN "None"
    ELSE IF tag_value.t = "null" THEN "fail" ELSE ri.validation.overall_status

\* validation.get("overall_status"), None without a validation object
ReportStatus(ri, tag_value) ==
    IF ri.validated THEN ri.validation.overall_status ELSE "None"

\* the report build_report(instance) returns, without its by_code; valve_tag is
\* a key only for the component valve with a tag
ReportHead(ri) ==
    LET found == _detect_profile(ri.top)
        profile_key == found.key
        component ==
            IF profile_key.t = "str"
            THEN StrV(SubSeq(profile_key.s, 1, Len(profile_key.s) - Len(PROFILE_SUFFIX)))
            ELSE Null
        tag_field ==
            IF DOMAIN found.profile # {} THEN _detect_tag_field(found.profile) ELSE Null
        tag_value == IF tag_field.t = "str" THEN found.profile[tag_field.s] ELSE Null
    IN  [instance_id |-> GetNone(ri.instance_id),
         template_id |-> GetNone(ri.template_id),
         component |-> component,
         profile_key |-> profile_key,
         tag_field |-> tag_field,
         tag |-> tag_value,
         generated_utc |-> GetNone(ri.generated_utc),
         overall_status |-> ReportStatus(ri, tag_value),
         counts |-> ReportCounts(ri),
         valve_tag |->
             IF component = StrV(VALVE) /\ tag_value.t # "null" THEN tag_value ELSE Absent]

(***************************************************************************)
(* The validator and the aggregator before they are called, and values of   *)
(* the enumerated requirements.                                             *)
(***************************************************************************)
\* a type that is not exempt from the 'shall' heuristic
FUNCTIONAL == <<"f", "u", "n", "c", "t", "i", "o", "n", "a", "l">>

\* a verification with a method and an acceptance
OkVerification == VerDict(ListV(<< <<"t", "e", "s", "t">> >>), StrV(<<"O", "K">>))

NoReqIssues == [raised |-> FALSE, issues |-> <<>>]

ValidateIdle ==
    /\ req = Req(Absent, Absent, Absent, VerOther("absent"), Absent)
    /\ req_issues = NoReqIssues
    /\ v_instance = AppV("absent", <<>>, 0)
    /\ validation = NoValidation

NoReport == ReportHead(RepInstance(EmptyDict, FALSE, <<>>))

ReportIdle ==
    /\ rep_issues = <<>>
    /\ by_code = <<>>
    /\ rep_instance = RepInstance(EmptyDict, FALSE, <<>>)
    /\ report = NoReport
    /\ report_again = [head |-> NoReport, by_code |-> <<>>]

(***************************************************************************)
(* Derivation orchestrator.                                                 *)
(***************************************************************************)
\* a generator that yields the requirements of the first requirement set only
iter_requirements_first_set(t) == IF t = <<>> THEN <<>> ELSE Head(t)

\* iter_requirements(template): the requirements of every set, set by set
RECURSIVE iter_requirements(_)
iter_requirements(t) ==
    IF t = <<>> THEN <<>> ELSE Head(t) \o iter_requirements(Tail(t))

\* r.get("applicability", {}).get("when", ["always"])
WhenOf(r) == IF r.has_when THEN r.when ELSE <<ALWAYS>>

\* a status that never asks for review
StatusAlwaysDraft(tbd) == "draft"

\* status = "review_required" if tbd else "draft"
StatusOf(tbd) == IF tbd # <<>> THEN "review_required" ELSE "draft"

\* the elements of a list
Elems(l) == {l[n] : n \in 1..Len(l)}

\* a tbd count that adds up the lengths of the tbd lists
SummaryTbdPerRequirement(app, nonapp, total) ==
    [applicable_count |-> Len(app),
     non_applicable_count |-> Len(nonapp),
     tbd_parameter_count |-> Len(Concat([n \in 1..Len(app) |-> app[n].tbd_parameters]))]

\* the summary of the instance
Summary(app, nonapp, total) ==
    [applicable_count |-> Len(app),
     non_applicable_count |-> Len(nonapp),
     tbd_parameter_count |-> Cardinality(total)]

\* the entry appended to applicable for a requirement whose rule matched; its
\* type and verification are those of the template, "unknown" and
\* {"method": [], "acceptance": ""} when the template has none
ApplicableEntry(r, p) ==
    LET it == instantiate_text(r.text, p)
    IN  [id |-> r.id,
         text |-> it.out,
         type |-> GetDefault(r.type, StrV(<<"u", "n", "k", "n", "o", "w", "n">>)),
         verification |->
             IF r.verification.t = "absent"
             THEN VerDict(ListV(<<>>), StrV(<<>>)) ELSE r.verification,
         status |-> StatusOf(it.tbd),
         parameter_values |-> it.used,
         tbd_parameters |-> it.tbd,
         applicability |-> [conditions |-> WhenOf(r), matched |-> TRUE]]

\* the entry appended to non_applicable for a requirement whose rule failed
NonApplicableEntry(r, res) ==
    [id |-> r.id,
     conditions |-> WhenOf(r),
     reasons |-> IF res.reasons # <<>> THEN res.reasons ELSE <<"Not applicable">>]

\* an entry of applicable as validate_instance reads it: a dict whose id and
\* text are strings and whose tbd_parameters is a list
AsReq(a) == Req(StrV(a.id), StrV(a.text), a.type, a.verification, ListV(a.tbd_parameters))

\* instance["validation"] = validate_instance(instance)
ValidationOf(app) ==
    validate_instance(AppV("list", [n \in 1..Len(app) |-> AsReq(app[n])], Len(app)))

\* str.upper()
RECURSIVE Upper(_)
Upper(s) ==
    IF s = <<>> THEN <<>>
    ELSE (IF Head(s) \in LowerLetters
          THEN <<UpperAlphabet[CHOOSE k \in 1..Len(LowerAlphabet) : LowerAlphabet[k] = Head(s)]>>
          ELSE <<Head(s)>>) \o Upper(Tail(s))

\* the keyword arguments component, profile_key and tag_field, and the
\* template_id key of the template
Args(component, profile_key, tag_field, template_id) ==
    [component |-> component, profile_key |-> profile_key, tag_field |-> tag_field,
     template_id |-> template_id]

\* the defaults of the keyword arguments, and a template without template_id
DefaultArgs == Args(VALVE, Null, Null, Absent)

\* profile_key or f"{component}_profile"
ProfileKey(a) ==
    IF Truthy(a.profile_key) THEN a.profile_key.s ELSE a.component \o PROFILE_SUFFIX

\* _infer_tag_field(profile): the smallest key that ends with _tag and holds a
\* true value; None when there is none
_infer_tag_field(p) ==
    LET tag_keys == {k \in DOMAIN p : EndsWith(k, TAG_SUFFIX) /\ Truthy(p[k])}
    IN  IF tag_keys = {} THEN Null ELSE StrV(SortedStrings(tag_keys)[1])

\* the tag field after the inference: tag_field or f"{component}_tag", replaced
\* by the inferred field when the profile holds None or "" for it and a field
\* is inferred
TagField(p, a) ==
    LET designated ==
            IF Truthy(a.tag_field) THEN a.tag_field.s ELSE a.component \o TAG_SUFFIX
        inferred == _infer_tag_field(p)
    IN  IF Get(p, designated) \in {Null, StrV(<<>>)} /\ inferred.t = "str"
        THEN inferred.s ELSE designated

\* a tag that is not trimmed
TagValueUntrimmed(p, a) ==
    LET tag_value == Get(p, TagField(p, a))
        as_str == IF tag_value.t # "null" THEN PyStr(tag_value) ELSE <<>>
    IN  IF as_str # <<>> THEN as_str ELSE Upper(a.component)

\* tag_value: the trimmed str of the value of the tag field, component.upper()
\* when that is empty or the value is None
TagValue(p, a) ==
    LET tag_value == Get(p, TagField(p, a))
        stripped == IF tag_value.t # "null" THEN Strip(PyStr(tag_value)) ELSE <<>>
    IN  IF stripped # <<>> THEN stripped ELSE Upper(a.component)

REQUIREMENTS_SUFFIX == <<"-", "r", "e", "q", "u", "i", "r", "e", "m", "e", "n", "t", "s">>

UNKNOWN_TEMPLATE ==
    <<"u", "n", "k", "n", "o", "w", "n", "_", "t", "e", "m", "p", "l", "a", "t", "e">>

\* the readings of the clock
Clock == 1..MaxClock

\* the instance filter_and_instantiate returns for the two lists and the set
\* of names its loop has built, at the clock reading now
InstanceOf(p, a, app, nonapp, total, now) ==
    [instance_id |-> TagValue(p, a) \o REQUIREMENTS_SUFFIX,
     template_id |-> GetDefault(a.template_id, StrV(UNKNOWN_TEMPLATE)),
     generated_utc |-> now,
     profile_key |-> ProfileKey(a),
     profile |-> p,
     summary |-> Summary(app, nonapp, total),
     applicable_requirements |-> app,
     non_applicable_requirements |-> nonapp,
     validation |-> ValidationOf(app)]

NoInstance ==
    [instance_id |-> <<>>,
     template_id |-> Absent,
     generated_utc |-> 0,
     profile_key |-> <<>>,
     profile |-> EmptyProfile,
     summary |-> [applicable_count |-> 0, non_applicable_count |-> 0,
                  tbd_parameter_count |-> 0],
     applicable_requirements |-> <<>>,
     non_applicable_requirements |-> <<>>,
     validation |-> NoValidation]

DeriveIdle ==
    /\ template = <<>>
    /\ idx = 0
    /\ applicable = <<>>
    /\ non_applicable = <<>>
    /\ tbd_params_total = {}
    /\ instance = NoInstance
    /\ args = DefaultArgs

\* one pass of the loop of filter_and_instantiate: the two lists and the set
\* of names after requirement r, from what they were before, given what
\* eval_when returned for r and the entry r gives when it applies
DeriveStep(before, r, res, entry) ==
    IF res.matched
    THEN [before EXCEPT !.applicable = Append(@, entry),
                        !.total = @ \cup Elems(entry.tbd_parameters)]
    ELSE [before EXCEPT !.non_applicable = Append(@, NonApplicableEntry(r, res))]

\* the loop of filter_and_instantiate over a list of requirements
RECURSIVE DeriveLoop(_, _)
DeriveLoop(reqs, p) ==
    IF reqs = <<>> THEN [applicable |-> <<>>, non_applicable |-> <<>>, total |-> {}]
    ELSE DeriveStep(DeriveLoop(SubSeq(reqs, 1, Len(reqs) - 1), p),
                    reqs[Len(reqs)],
                    eval_when(p, WhenOf(reqs[Len(reqs)])),
                    ApplicableEntry(reqs[Len(reqs)], p))

\* filter_and_instantiate(template, profile, ...): the instance one call
\* returns, at the clock reading now
filter_and_instantiate(t, p, a, now) ==
    CHOOSE i \in {InstanceOf(p, a, built.applicable, built.non_applicable, built.total, now) :
                     built \in {DeriveLoop(iter_requirements(t), p)}} : TRUE

(***************************************************************************)
(* Conversational agent in manual mode (src/src/agent.py with llm None)     *)
(* and its profile builder (src/src/profile_builder.py).                    *)
(*                                                                          *)
(* A schema is the builder after construction: the list required and the    *)
(* dict props.  A property of props carries its "type" (None, a name or a   *)
(* list of names) and its "enum" (absent or a list of strings).  An agent   *)
(* is its profile, its _pending_field and the template it loaded.           *)
(***************************************************************************)
NoType == [t |-> "null", names |-> <<>>]
TypeName(n) == [t |-> "str", names |-> <<n>>]
TypeList(ns) == [t |-> "list", names |-> ns]

Prop(type, enum) == [type |-> type, enum |-> enum]

Schema(required, props) == [required |-> required, props |-> props]

\* the keys of self.enums
Enums(sc) == {k \in DOMAIN sc.props : sc.props[k].enum.t # "absent"}

\* profile[k] = val
SetKey(p, k, val) == [x \in DOMAIN p \cup {k} |-> IF x = k THEN val ELSE p[x]]

\* whether missing_required counts a value as missing
IsMissing(v) == v.t = "null" \/ (v.t = "str" /\ Strip(v.s) = <<>>)

\* missing_required(profile): the required fields without a value, in the
\* order of required
missing_required(sc, p) == SelectSeq(sc.required, LAMBDA k : IsMissing(Get(p, k)))

\* the strings coerce_value reads as None, compared stripped and lowered
NULLISH ==
    {<<"n", "u", "l", "l">>, <<"n", "o", "n", "e">>, <<"n", "a">>, <<"n", "/", "a">>,
     <<"u", "n", "k", "n", "o", "w", "n">>, <<"t", "b", "d">>, <<>>}

\* the type coerce_value works with: the name, or the first name of a list
\* that is not "null", or none
PrimaryType(type) ==
    LET primary == SelectSeq(type.names, LAMBDA n : n # "null")
    IN  CASE type.t = "str" -> type.names[1]
          [] type.t = "list" /\ primary # <<>> -> primary[1]
          [] OTHER -> "none"

NoErr == "none"

Coerced(val, err) == [val |-> val, err |-> err]

\* coerce_value(key, raw): the value and the kind of error, NoErr for None
coerce_value(sc, key, raw) ==
    IF raw.t = "null" THEN Coerced(Null, NoErr)
    ELSE IF raw.t = "str" /\ Lower(Strip(raw.s)) \in NULLISH THEN Coerced(Null, NoErr)
    ELSE LET prop == IF key \in DOMAIN sc.props THEN sc.props[key] ELSE Prop(NoType, Absent)
             types == PrimaryType(prop.type)
             val == Strip(PyStr(raw))
             number == PyFloat(raw)
         IN  IF key \in Enums(sc)
             THEN IF val \in Elems(prop.enum.s)
                  THEN Coerced(StrV(val), NoErr)
                  ELSE Coerced(Null, "enum")
             ELSE IF types = "number"
             THEN IF number.ok
                  THEN Coerced(FloatV(number.n), NoErr)
                  ELSE Coerced(Null, "number")
             ELSE IF types = "object"
             THEN IF raw.t = "dict" THEN Coerced(raw, NoErr) ELSE Coerced(Null, "object")
             ELSE Coerced(StrV(PyStr(raw)), NoErr)

\* an apply_patch that stores None for a value it rejects
RECURSIVE apply_patch_stores_rejected(_, _, _)
apply_patch_stores_rejected(sc, p, patch) ==
    IF patch = <<>> THEN [profile |-> p, errors |-> <<>>]
    ELSE LET k == patch[Len(patch)][1]
             raw == patch[Len(patch)][2]
             before == apply_patch_stores_rejected(sc, p, SubSeq(patch, 1, Len(patch) - 1))
             c == coerce_value(sc, k, raw)
         IN  IF k \notin DOMAIN sc.props
             THEN [before EXCEPT !.errors = Append(@, "unknown")]
             ELSE IF c.err # NoErr
             THEN [profile |-> SetKey(before.profile, k, Null),
                   errors |-> Append(before.errors, c.err)]
             ELSE [before EXCEPT !.profile = SetKey(@, k, c.val)]

\* apply_patch(profile, patch): the profile after the patch, a list of pairs
\* of a key and a raw value, and the kinds of the errors
RECURSIVE apply_patch(_, _, _)
apply_patch(sc, p, patch) ==
    IF patch = <<>> THEN [profile |-> p, errors |-> <<>>]
    ELSE LET k == patch[Len(patch)][1]
             raw == patch[Len(patch)][2]
             before == apply_patch(sc, p, SubSeq(patch, 1, Len(patch) - 1))
             c == coerce_value(sc, k, raw)
         IN  IF k \notin DOMAIN sc.props
             THEN [before EXCEPT !.errors = Append(@, "unknown")]
             ELSE IF c.err # NoErr
             THEN [before EXCEPT !.errors = Append(@, c.err)]
             ELSE [before EXCEPT !.profile = SetKey(@, k, c.val)]

\* the enumerated fields whose value status reports: set and not allowed
EnumErrors(sc, p) ==
    {k \in Enums(sc) :
        LET v == Get(p, k)
        IN  v.t # "null" /\ ~(v.t = "str" /\ v.s \in Elems(sc.props[k].enum.s))}

\* a status that does not look at the required fields
status_without_required(sc, p) ==
    [ok |-> EnumErrors(sc, p) = {},
     missing_required |-> missing_required(sc, p),
     errors |-> EnumErrors(sc, p)]

\* status(profile)
status(sc, p) ==
    [ok |-> missing_required(sc, p) = <<>> /\ EnumErrors(sc, p) = {},
     missing_required |-> missing_required(sc, p),
     errors |-> EnumErrors(sc, p)]

Agent(p, pending, t) == [profile |-> p, pending |-> pending, template |-> t]

\* bool(self._pending_field)
HasPending(ag) == Truthy(ag.pending)

\* an agent that asks nothing after a reply it stored
NextPendingNone(missing) == Null

\* the field the agent asks next: the first missing one, if any
NextPending(missing) == IF missing # <<>> THEN StrV(missing[1]) ELSE Null

Reply(ag, changed, said) == [agent |-> ag, changed |-> changed, said |-> said]

\* _manual_apply(user_text): the agent afterwards, the flag returned and the
\* kind of message; apply_patch works on the profile of the agent in place
_manual_apply(sc, ag, user_text) ==
    LET field == ag.pending
        patched == apply_patch(sc, ag.profile, << <<field.s, user_text>> >>)
        st == status(sc, patched.profile)
        missing == missing_required(sc, ag.profile)
    IN  IF HasPending(ag)
        THEN IF patched.errors # <<>>
             THEN Reply([ag EXCEPT !.profile = patched.profile, !.pending = field],
                        TRUE, "try again")
             ELSE IF st.ok
             THEN Reply([ag EXCEPT !.profile = patched.profile, !.pending = Null],
                        TRUE, "complete")
             ELSE Reply([ag EXCEPT !.profile = patched.profile,
                                   !.pending = NextPending(st.missing_required)],
                        TRUE, IF st.missing_required # <<>> THEN "next" ELSE "updated")
        ELSE IF missing # <<>>
             THEN Reply([ag EXCEPT !.pending = StrV(missing[1])], FALSE, "missing")
             ELSE Reply(ag, FALSE, "appears complete")

\* apply_user_text(user_text) of an agent without llm
apply_user_text(sc, ag, user_text) == _manual_apply(sc, ag, user_text)

\* set_field(field, value): the agent afterwards
set_field(sc, ag, field, value) ==
    LET patched == apply_patch(sc, ag.profile, << <<field, value>> >>)
    IN  IF patched.errors # <<>>
        THEN Reply([ag EXCEPT !.profile = patched.profile], FALSE, "could not set")
        ELSE Reply([ag EXCEPT !.profile = patched.profile, !.pending = Null], TRUE,
                   IF status(sc, patched.profile).ok THEN "complete" ELSE "updated")

\* reset()
reset(ag) == [ag EXCEPT !.profile = EmptyProfile, !.pending = Null]

\* the files of a package, in the order run_and_package writes them
PACKAGE_FILES ==
    <<"valve_profile.json", "requirements_instance.json", "validation_report.json",
      "validation_report.csv", "manifest.json", "zip">>

\* run_and_package(): whether it raises ValueError, and the package it writes
\* otherwise
run_and_package(sc, ag, now) ==
    IF ~status(sc, ag.profile).ok
    THEN [raised |-> TRUE, package |-> <<>>]
    ELSE [raised |-> FALSE,
          package |-> <<[profile |-> ag.profile,
                         instance |-> filter_and_instantiate(ag.template, ag.profile,
                                                             DefaultArgs, now),
                         valve_tag |-> Get(ag.profile, VALVE_TAG),
                         files |-> PACKAGE_FILES]>>]

\* what the last operation of the agent returned: its name, the text and the
\* field it was given, whether it raised, its flag and its kind of message
Outcome(op, field, user_text, raised, changed, said) ==
    [op |-> op, field |-> field, text |-> user_text, raised |-> raised,
     changed |-> changed, said |-> said]

NoSchema == Schema(<<>>, EmptyProfile)
NewAgent == Agent(EmptyProfile, Null, <<>>)
NoOutcome == Outcome("none", Null, <<>>, FALSE, FALSE, "none")

(***************************************************************************)
(* Batch entry point (main of src/src/engine.py).                           *)
(***************************************************************************)
\* the parsed command line: the three gate options and whether the two report
\* paths are given; max_warnings is None or a number
CliArgs(strict, fail_on_warnings, max_warnings, report_json, report_csv) ==
    [strict |-> strict, fail_on_warnings |-> fail_on_warnings,
     max_warnings |-> max_warnings, report_json |-> report_json, report_csv |-> report_csv]

\* stands for the exit code before main has returned
NoCode == -1

\* an exit code that tests the warnings before the status
ExitCodeWarningsFirst(a, v) ==
    IF a.fail_on_warnings /\ v.warning_count > 0 THEN 3
    ELSE IF a.strict /\ v.overall_status # "pass" THEN 2
    ELSE IF a.max_warnings.t # "null" /\ v.warning_count > a.max_warnings.n THEN 4
    ELSE 0

\* the value main returns for the validation object of the instance
ExitCode(a, v) ==
    IF a.strict /\ v.overall_status # "pass" THEN 2
    ELSE IF a.fail_on_warnings /\ v.warning_count > 0 THEN 3
    ELSE IF a.max_warnings.t # "null" /\ v.warning_count > a.max_warnings.n THEN 4
    ELSE 0

\* the report files main writes
ReportFiles(a) ==
    (IF a.report_json THEN <<"report_json">> ELSE <<>>)
        \o (IF a.report_csv THEN <<"report_csv">> ELSE <<>>)

MainIdle ==
    /\ cli_args = CliArgs(FALSE, FALSE, Null, FALSE, FALSE)
    /\ cli_out = [written |-> <<>>, code |-> NoCode]

ConcurrentIdle == runs = <<>>

AgentIdle ==
    /\ schema = NoSchema
    /\ agent = NewAgent
    /\ packages = <<>>
    /\ outcome = NoOutcome
    /\ streak = 0

(***************************************************************************)
(* Inputs of the condition evaluator.                                       *)
(***************************************************************************)
\* characters of the enumerated condition strings
CondAlphabet == {"k", "1", " ", "=", ">", "<", "|"}

\* every string over an alphabet of a length up to n
StringsUpTo(A, n) == UNION {[1..m -> A] : m \in 0..n}

CondStrings == StringsUpTo(CondAlphabet, MaxCondLen) \cup {ALWAYS, <<" ">> \o ALWAYS}

\* the profile key the enumerated profiles set
KeyK == <<"k">>

\* values the enumerated profiles give to the key
CondValues ==
    {Null, StrV(<<"1">>), StrV(<<" ", "1">>), StrV(<<"k">>), IntV(1), IntV(2), BoolV(TRUE)}

NoResult == [raised |-> FALSE, matched |-> FALSE, reasons |-> <<>>]

CondProfiles == {EmptyProfile} \cup {[x \in {KeyK} |-> v] : v \in CondValues}

(***************************************************************************)
(* Specification of the parser: one call of parse_simple_condition.         *)
(***************************************************************************)
InitParse ==
    /\ pc = "start"
    /\ cond \in CondStrings
    /\ profile = EmptyProfile
    /\ parsed = NoParse("")
    /\ result = NoResult
    /\ when_list = <<>>
    /\ text = <<>>
    /\ inst = NoInst
    /\ DeriveIdle
    /\ ValidateIdle
    /\ ReportIdle
    /\ MainIdle
    /\ ConcurrentIdle
    /\ AgentIdle

Parse ==
    /\ pc = "start"
    /\ parsed' = parse_simple_condition(cond)
    /\ pc' = "parsed"
    /\ UNCHANGED <<cond, profile, result, when_list, instVars, deriveVars,
                 validateVars, reportVars,
                   mainVars, concurrentVars, agentVars>>

SpecParse == InitParse /\ [][Parse]_vars

(***************************************************************************)
(* Specification of the evaluator: one call of eval_condition.              *)
(***************************************************************************)
InitCond ==
    /\ pc = "start"
    /\ cond \in CondStrings
    /\ profile \in CondProfiles
    /\ parsed = NoParse("")
    /\ result = NoResult
    /\ when_list = <<>>
    /\ text = <<>>
    /\ inst = NoInst
    /\ DeriveIdle
    /\ ValidateIdle
    /\ ReportIdle
    /\ MainIdle
    /\ ConcurrentIdle
    /\ AgentIdle

EvalCondition ==
    /\ pc = "start"
    /\ result' = eval_condition(profile, cond)
    /\ pc' = "evaluated"
    /\ UNCHANGED <<cond, profile, parsed, when_list, instVars, deriveVars,
                 validateVars, reportVars,
                   mainVars, concurrentVars, agentVars>>

SpecCond == InitCond /\ [][EvalCondition]_vars

(***************************************************************************)
(* Specification of applicability rules: one call of eval_when.             *)
(***************************************************************************)
\* the conditions the enumerated rules are made of: the keyword, an equality,
\* two comparisons, a string without operator and a condition without key
WhenConds ==
    {ALWAYS,
     <<"k", "=", "1">>,
     <<"k", ">", "1">>,
     <<"k", "<", "=", "1">>,
     <<"k">>,
     <<"=", "1">>}

WhenLists == UNION {[1..m -> WhenConds] : m \in 0..MaxWhen}

InitWhen ==
    /\ pc = "start"
    /\ when_list \in WhenLists
    /\ profile \in CondProfiles
    /\ cond = <<>>
    /\ parsed = NoParse("")
    /\ result = NoResult
    /\ text = <<>>
    /\ inst = NoInst
    /\ DeriveIdle
    /\ ValidateIdle
    /\ ReportIdle
    /\ MainIdle
    /\ ConcurrentIdle
    /\ AgentIdle

EvalWhen ==
    /\ pc = "start"
    /\ result' = eval_when(profile, when_list)
    /\ pc' = "evaluated"
    /\ UNCHANGED <<profile, cond, parsed, when_list, instVars, deriveVars,
                 validateVars, reportVars,
                   mainVars, concurrentVars, agentVars>>

SpecWhen == InitWhen /\ [][EvalWhen]_vars

(***************************************************************************)
(* Specification of the instantiator: one call of instantiate_text.         *)
(***************************************************************************)
KeyX == <<"x">>
KeyY == <<"y">>

\* the pieces the enumerated texts are concatenations of: markers with and
\* without inner whitespace, and the characters markers are made of
Pieces ==
    {<<"{", "{", "x", "}", "}">>,
     <<"{", "{", " ", "x", " ", "}", "}">>,
     <<"{", "{", "y", "}", "}">>,
     <<"{", "{">>,
     <<"}", "}">>,
     <<"x">>,
     <<"1">>,
     <<" ">>}

Texts == {Concat(ps) : ps \in UNION {[1..m -> Pieces] : m \in 0..MaxPieces}}

\* values of x in the enumerated profiles: absent, null, a word, a number,
\* a value that reads as a marker and a value that is part of one
InstValuesX ==
    {Null, StrV(<<"v">>), IntV(5), StrV(<<"{", "{", "y", "}", "}">>), StrV(<<"{">>)}

InstProfiles ==
    {EmptyProfile}
        \cup {[k \in {KeyX} |-> v] : v \in InstValuesX}
        \cup {[k \in {KeyX, KeyY} |-> IF k = KeyX THEN v ELSE StrV(<<"w">>)] : v \in InstValuesX}
        \cup {[k \in {KeyY} |-> StrV(<<"w">>)]}

InitInst ==
    /\ pc = "start"
    /\ text \in Texts
    /\ profile \in InstProfiles
    /\ inst = NoInst
    /\ cond = <<>>
    /\ parsed = NoParse("")
    /\ result = NoResult
    /\ when_list = <<>>
    /\ DeriveIdle
    /\ ValidateIdle
    /\ ReportIdle
    /\ MainIdle
    /\ ConcurrentIdle
    /\ AgentIdle

Instantiate ==
    /\ pc = "start"
    /\ inst' = instantiate_text(text, profile)
    /\ pc' = "instantiated"
    /\ UNCHANGED <<profile, cond, parsed, result, when_list, text, deriveVars,
                 validateVars, reportVars,
                   mainVars, concurrentVars, agentVars>>

SpecInst == InitInst /\ [][Instantiate]_vars

(***************************************************************************)
(* Specification of the derivation: one call of filter_and_instantiate,     *)
(* one step per requirement of the template and one to assemble the         *)
(* instance.                                                                *)
(***************************************************************************)
\* the rules and texts of the enumerated requirements
ReqPool ==
    {[has_when |-> FALSE, when |-> <<>>, text |-> <<"a">>,
      type |-> Absent, verification |-> VerOther("absent")],
     [has_when |-> TRUE, when |-> <<ALWAYS>>, text |-> <<"a">>,
      type |-> StrV(FUNCTIONAL), verification |-> OkVerification],
     [has_when |-> TRUE, when |-> <<ALWAYS>>, text |-> <<"{", "{", "x", "}", "}">>,
      type |-> StrV(PROGRAMMATIC), verification |-> OkVerification],
     [has_when |-> TRUE, when |-> << <<"k", "=", "1">> >>,
      text |-> <<"{", "{", "x", "}", "}", "{", "{", " ", "y", " ", "}", "}">>,
      type |-> StrV(FUNCTIONAL), verification |-> OkVerification],
     [has_when |-> TRUE, when |-> << <<"k", ">", "1">>, <<"k">> >>,
      text |-> <<"{", "{", "y", "}", "}">>,
      type |-> Absent, verification |-> OkVerification]}

\* the sum of a sequence of numbers
RECURSIVE Sum(_)
Sum(ns) == IF ns = <<>> THEN 0 ELSE Head(ns) + Sum(Tail(ns))

\* the sizes of the requirement sets of the enumerated templates
Shapes ==
    {sh \in UNION {[1..m -> 0..MaxReqs] : m \in 0..MaxSets} : Sum(sh) <= MaxReqs}

\* the identifier of the n-th requirement of a template
ReqId(n) == <<"R">> \o Digits(n)

\* the template whose sets have the sizes sh and whose requirements are, in
\* order, those of flat; identifiers are distinct
Cut(flat, sh) ==
    [m \in 1..Len(sh) |->
        [j \in 1..sh[m] |->
            LET n == Sum(SubSeq(sh, 1, m - 1)) + j
            IN  [id |-> ReqId(n), has_when |-> flat[n].has_when,
                 when |-> flat[n].when, text |-> flat[n].text,
                 type |-> flat[n].type, verification |-> flat[n].verification]]]

Templates ==
    UNION {{Cut(flat, sh) : flat \in [1..Sum(sh) -> ReqPool]} : sh \in Shapes}

\* the enumerated profiles: k absent, 1 or 2; x absent, a word or a value that
\* reads as a marker
DeriveProfiles ==
    {[key \in ks |-> IF key = KeyK THEN vk ELSE vx] :
        ks \in SUBSET {KeyK, KeyX},
        vk \in {IntV(1), IntV(2)},
        vx \in {StrV(<<"v">>), StrV(<<"{", "{", "y", "}", "}">>)}}

Init ==
    /\ pc = "loop"
    /\ template \in Templates
    /\ profile \in DeriveProfiles
    /\ idx = 0
    /\ applicable = <<>>
    /\ non_applicable = <<>>
    /\ tbd_params_total = {}
    /\ instance = NoInstance
    /\ args = DefaultArgs
    /\ cond = <<>>
    /\ parsed = NoParse("")
    /\ result = NoResult
    /\ when_list = <<>>
    /\ text = <<>>
    /\ inst = NoInst
    /\ ValidateIdle
    /\ ReportIdle
    /\ MainIdle
    /\ ConcurrentIdle
    /\ AgentIdle

\* one pass of the loop over iter_requirements(template)
ProcessRequirement ==
    /\ pc = "loop"
    /\ idx < Len(iter_requirements(template))
    /\ LET r == iter_requirements(template)[idx + 1]
           res == eval_when(profile, WhenOf(r))
       IN  IF res.matched
           THEN /\ applicable' = Append(applicable, ApplicableEntry(r, profile))
                /\ tbd_params_total' =
                       tbd_params_total \cup Elems(ApplicableEntry(r, profile).tbd_parameters)
                /\ UNCHANGED non_applicable
           ELSE /\ non_applicable' = Append(non_applicable, NonApplicableEntry(r, res))
                /\ UNCHANGED <<applicable, tbd_params_total>>
    /\ idx' = idx + 1
    /\ UNCHANGED <<pc, profile, template, instance, args, condVars, result, when_list,
                   instVars, validateVars, reportVars,
                   mainVars, concurrentVars, agentVars>>

\* the instance built after the loop: its identifier, the template_id, the
\* time, the embedded profile, the summary, the two lists and the validation
\* of the instance
Assemble ==
    /\ pc = "loop"
    /\ idx = Len(iter_requirements(template))
    /\ \E now \in Clock :
          instance' =
              InstanceOf(profile, args, applicable, non_applicable, tbd_params_total, now)
    /\ pc' = "done"
    /\ UNCHANGED <<profile, template, idx, applicable, non_applicable, tbd_params_total, args,
                   condVars, result, when_list, instVars, validateVars, reportVars,
                   mainVars, concurrentVars, agentVars>>

Next == ProcessRequirement \/ Assemble

Spec == Init /\ [][Next]_vars

(***************************************************************************)
(* Specification of the instance identifier: one call of                    *)
(* filter_and_instantiate on a template of at most one requirement, for     *)
(* profiles with tag fields and for the keyword arguments.                  *)
(***************************************************************************)
PUMP == <<"p", "u", "m", "p">>
PUMP_TAG == PUMP \o TAG_SUFFIX

\* the values the enumerated profiles give to a tag field whose name starts
\* with the letter c: None, an empty string, a blank, a padded word, a number
TagValues(c) == {Null, StrV(<<>>), StrV(<<" ">>), StrV(<<" ", c, "1", " ">>), IntV(7)}

\* the enumerated profiles: each of a_tag, pump_tag and valve_tag absent or
\* with one of the values
TagProfiles ==
    UNION {{[k \in ks |->
                IF k = A_TAG THEN va ELSE IF k = PUMP_TAG THEN vp ELSE vv] :
              va \in TagValues("A"), vp \in TagValues("P"), vv \in TagValues("V")} :
           ks \in SUBSET {A_TAG, PUMP_TAG, VALVE_TAG}}

\* the enumerated keyword arguments: two components, no tag_field, an empty
\* one and pump_tag, a template with and without template_id
TagArgs ==
    {Args(c, Null, tf, tid) :
        c \in {VALVE, PUMP},
        tf \in {Null, StrV(<<>>), StrV(PUMP_TAG)},
        tid \in {Absent, StrV(<<"T">>)}}

InitTag ==
    /\ pc = "loop"
    /\ template \in {<<>>} \cup {Cut([n \in 1..1 |-> r], <<1>>) : r \in ReqPool}
    /\ profile \in TagProfiles
    /\ args \in TagArgs
    /\ idx = 0
    /\ applicable = <<>>
    /\ non_applicable = <<>>
    /\ tbd_params_total = {}
    /\ instance = NoInstance
    /\ cond = <<>>
    /\ parsed = NoParse("")
    /\ result = NoResult
    /\ when_list = <<>>
    /\ text = <<>>
    /\ inst = NoInst
    /\ ValidateIdle
    /\ ReportIdle
    /\ MainIdle
    /\ ConcurrentIdle
    /\ AgentIdle

SpecTag == InitTag /\ [][Next]_vars

(***************************************************************************)
(* Specification of concurrent derivations: two calls of                    *)
(* filter_and_instantiate whose steps interleave.  Each call has its own    *)
(* arguments and its own locals.                                            *)
(***************************************************************************)
\* a call of filter_and_instantiate before its loop: its arguments and its
\* locals applicable, non_applicable and tbd_params_total
NewRun(t, p, a) ==
    [pc |-> "loop", template |-> t, profile |-> p, args |-> a, idx |-> 0,
     applicable |-> <<>>, non_applicable |-> <<>>, tbd_params_total |-> {},
     instance |-> NoInstance]

\* a set of names that the calls share
TotalShared(i) == UNION {runs[j].tbd_params_total : j \in DOMAIN runs}

\* the set tbd_params_total of call i, a local of the call
TotalOf(i) == runs[i].tbd_params_total

\* one pass of the loop of call i
RunProcessRequirement(i) ==
    /\ runs[i].pc = "loop"
    /\ runs[i].idx < Len(iter_requirements(runs[i].template))
    /\ LET run == runs[i]
           r == iter_requirements(run.template)[run.idx + 1]
           res == eval_when(run.profile, WhenOf(r))
           entry == ApplicableEntry(r, run.profile)
       IN  runs' =
               [runs EXCEPT ![i] =
                   IF res.matched
                   THEN [run EXCEPT !.applicable = Append(@, entry),
                                    !.tbd_params_total = TotalOf(i) \cup Elems(entry.tbd_parameters),
                                    !.idx = @ + 1]
                   ELSE [run EXCEPT !.non_applicable = Append(@, NonApplicableEntry(r, res)),
                                    !.idx = @ + 1]]
    /\ UNCHANGED <<pc, profile, condVars, result, when_list, instVars, deriveVars,
                   validateVars, reportVars, mainVars, agentVars>>

\* the instance of call i, built after its loop
RunAssemble(i) ==
    /\ runs[i].pc = "loop"
    /\ runs[i].idx = Len(iter_requirements(runs[i].template))
    /\ \E now \in Clock :
          runs' =
              [runs EXCEPT ![i] =
                  [@ EXCEPT !.pc = "done",
                            !.instance =
                                InstanceOf(runs[i].profile, runs[i].args, runs[i].applicable,
                                           runs[i].non_applicable, TotalOf(i), now)]]
    /\ UNCHANGED <<pc, profile, condVars, result, when_list, instVars, deriveVars,
                   validateVars, reportVars, mainVars, agentVars>>

\* the enumerated calls: a template of one set of at most MaxConcurrentReqs
\* requirements, a profile without values or with k and x
ConcurrentRuns ==
    {NewRun(t, p, DefaultArgs) :
        t \in UNION {{Cut(flat, <<m>>) : flat \in [1..m -> ReqPool]} :
                        m \in 0..MaxConcurrentReqs},
        p \in {EmptyProfile,
                [k \in {KeyK, KeyX} |-> IF k = KeyK THEN IntV(2) ELSE StrV(<<"v">>)]}}

InitConcurrent ==
    /\ pc = "concurrent"
    /\ runs \in [1..2 -> ConcurrentRuns]
    /\ profile = EmptyProfile
    /\ cond = <<>>
    /\ parsed = NoParse("")
    /\ result = NoResult
    /\ when_list = <<>>
    /\ text = <<>>
    /\ inst = NoInst
    /\ DeriveIdle
    /\ ValidateIdle
    /\ ReportIdle
    /\ MainIdle
    /\ AgentIdle

NextConcurrent == \E i \in DOMAIN runs : RunProcessRequirement(i) \/ RunAssemble(i)

SpecConcurrent == InitConcurrent /\ [][NextConcurrent]_vars

(***************************************************************************)
(* Specification of the agent in manual mode: after construction, any       *)
(* sequence of apply_user_text, set_field, reset and run_and_package.       *)
(***************************************************************************)
KeyU == <<"u">>

\* the enumerated schemas: a valve tag, an enumerated field and a number
\* required, beside an optional object; and a valve tag without type and an
\* object required, beside an optional enumerated field
Schemas ==
    {Schema(<<VALVE_TAG, KeyK, KeyX>>,
            [f \in {VALVE_TAG, KeyK, KeyX, KeyY} |->
                CASE f = VALVE_TAG -> Prop(TypeName("string"), Absent)
                  [] f = KeyK -> Prop(TypeName("string"), ListV(<< <<"1">>, <<"2">> >>))
                  [] f = KeyX -> Prop(TypeList(<<"null", "number">>), Absent)
                  [] OTHER -> Prop(TypeName("object"), Absent)]),
     Schema(<<VALVE_TAG, KeyY>>,
            [f \in {VALVE_TAG, KeyK, KeyY} |->
                CASE f = VALVE_TAG -> Prop(NoType, Absent)
                  [] f = KeyK -> Prop(TypeList(<<"null">>), ListV(<< <<"1">> >>))
                  [] OTHER -> Prop(TypeName("object"), Absent)])}

\* the enumerated templates the agent loads: none, and one set of two
\* requirements over the fields of the schemas
AgentTemplates ==
    {<<>>,
     Cut(<<[has_when |-> TRUE, when |-> <<ALWAYS>>, text |-> <<"{", "{", "x", "}", "}">>,
            type |-> StrV(PROGRAMMATIC), verification |-> OkVerification],
           [has_when |-> TRUE, when |-> << <<"k", "=", "1">> >>,
            text |-> <<"{", "{", "x", "}", "}", "{", "{", " ", "y", " ", "}", "}">>,
            type |-> StrV(FUNCTIONAL), verification |-> OkVerification]>>, <<2>>)}

\* the enumerated texts of the user: two numbers, one with a blank before it,
\* a word, a text that stands for no value, and a blank
Replies == {<<"1">>, <<" ", "2">>, <<"v">>, <<"T", "B", "D">>, <<" ">>}

\* the fields given to set_field: those of the schema and one it does not have
SetFields == DOMAIN schema.props \cup {KeyU}

InitAgent ==
    /\ pc = "agent"
    /\ schema \in Schemas
    /\ \E t \in AgentTemplates : agent = Agent(EmptyProfile, Null, t)
    /\ packages = <<>>
    /\ outcome = NoOutcome
    /\ streak = 0
    /\ profile = EmptyProfile
    /\ cond = <<>>
    /\ parsed = NoParse("")
    /\ result = NoResult
    /\ when_list = <<>>
    /\ text = <<>>
    /\ inst = NoInst
    /\ DeriveIdle
    /\ ValidateIdle
    /\ ReportIdle
    /\ MainIdle
    /\ ConcurrentIdle

\* whether a text is a value for the field the agent asks: apply_patch stores
\* it and what it stores is not None; any text when the agent asks nothing
AnswersPending(user_text) ==
    HasPending(agent) =>
        LET patched == apply_patch(schema, agent.profile, << <<agent.pending.s, user_text>> >>)
        IN  patched.errors = <<>> /\ Get(patched.profile, agent.pending.s) # Null

\* the number of calls of apply_user_text the agent needs at most
MaxCalls == Len(schema.required) + 1

\* the agent is in use until it has written MaxPackages packages
Running == pc = "agent" /\ Len(packages) < MaxPackages

\* one call of apply_user_text; streak counts the calls in a row, up to
\* MaxCalls, whose text was a value for the field asked
ApplyUserText ==
    /\ Running
    /\ \E user_text \in Replies :
          LET r == apply_user_text(schema, agent, StrV(user_text))
          IN  /\ agent' = r.agent
              /\ outcome' = Outcome("apply_user_text", agent.pending, user_text,
                                    FALSE, r.changed, r.said)
              /\ streak' = IF AnswersPending(StrV(user_text))
                           THEN (IF streak < MaxCalls THEN streak + 1 ELSE streak)
                           ELSE 0
    /\ UNCHANGED <<pc, profile, condVars, result, when_list, instVars, deriveVars,
                   validateVars, reportVars, mainVars, concurrentVars, schema, packages>>

\* one call of set_field
SetField ==
    /\ Running
    /\ \E field \in SetFields, value \in Replies :
          LET r == set_field(schema, agent, field, StrV(value))
          IN  /\ agent' = r.agent
              /\ outcome' = Outcome("set_field", StrV(field), value, FALSE, r.changed, r.said)
    /\ streak' = 0
    /\ UNCHANGED <<pc, profile, condVars, result, when_list, instVars, deriveVars,
                   validateVars, reportVars, mainVars, concurrentVars, schema, packages>>

\* one call of reset
Reset ==
    /\ Running
    /\ agent' = reset(agent)
    /\ outcome' = Outcome("reset", Null, <<>>, FALSE, FALSE, "none")
    /\ streak' = 0
    /\ UNCHANGED <<pc, profile, condVars, result, when_list, instVars, deriveVars,
                   validateVars, reportVars, mainVars, concurrentVars, schema, packages>>

\* one call of run_and_package
RunAndPackage ==
    /\ Running
    /\ \E now \in Clock :
          \E r \in {run_and_package(schema, agent, now)} :
              /\ packages' = packages \o r.package
              /\ outcome' = Outcome("run_and_package", Null, <<>>, r.raised, FALSE,
                                    IF r.raised THEN "ValueError" ELSE "package")
    /\ UNCHANGED <<pc, profile, condVars, result, when_list, instVars, deriveVars,
                   validateVars, reportVars, mainVars, concurrentVars, schema, agent, streak>>

NextAgent == ApplyUserText \/ SetField \/ Reset \/ RunAndPackage

SpecAgent == InitAgent /\ [][NextAgent]_vars

(***************************************************************************)
(* Specification of the batch entry point: one run of main, the call of     *)
(* filter_and_instantiate step by step, then the instance file, the report  *)
(* files and the exit code.                                                 *)
(***************************************************************************)
\* the enumerated templates: one set of at most MaxMainReqs requirements
MainTemplates ==
    UNION {{Cut(flat, <<m>>) : flat \in [1..m -> ReqPool]} : m \in 0..MaxMainReqs}

\* the enumerated command lines
MainArgs ==
    {CliArgs(st, fw, mw, rj, rc) :
        st \in BOOLEAN, fw \in BOOLEAN, mw \in {Null, IntV(0), IntV(1)},
        rj \in BOOLEAN, rc \in BOOLEAN}

InitMain ==
    /\ pc = "loop"
    /\ template \in MainTemplates
    /\ profile \in {EmptyProfile, [k \in {KeyK, KeyX} |-> IF k = KeyK THEN IntV(1) ELSE StrV(<<"v">>)]}
    /\ cli_args \in MainArgs
    /\ cli_out = [written |-> <<>>, code |-> NoCode]
    /\ args = DefaultArgs
    /\ idx = 0
    /\ applicable = <<>>
    /\ non_applicable = <<>>
    /\ tbd_params_total = {}
    /\ instance = NoInstance
    /\ cond = <<>>
    /\ parsed = NoParse("")
    /\ result = NoResult
    /\ when_list = <<>>
    /\ text = <<>>
    /\ inst = NoInst
    /\ ValidateIdle
    /\ ReportIdle
    /\ ConcurrentIdle
    /\ AgentIdle

\* json.dump(instance, f) into the file of --out
WriteInstance ==
    /\ pc = "done"
    /\ cli_out' = [cli_out EXCEPT !.written = Append(@, "out")]
    /\ pc' = "written"
    /\ UNCHANGED <<profile, cli_args, condVars, result, when_list, instVars, deriveVars,
                   validateVars, reportVars, concurrentVars, agentVars>>

\* the optional report outputs: the report is built when one of the two paths
\* is given, and written to the paths given
WriteReports ==
    /\ pc = "written"
    /\ IF cli_args.report_json \/ cli_args.report_csv
       THEN /\ rep_issues' = instance.validation.issues
            /\ rep_instance' =
                   [RepInstance([k \in {instance.profile_key} |-> TopDict(instance.profile)],
                                TRUE, <<>>)
                       EXCEPT !.validation = instance.validation,
                              !.instance_id = StrV(instance.instance_id),
                              !.template_id = instance.template_id,
                              !.generated_utc = IntV(instance.generated_utc)]
            /\ by_code' = build_report(instance.validation.issues)
            /\ report' = ReportHead(rep_instance')
       ELSE UNCHANGED <<rep_issues, rep_instance, by_code, report>>
    /\ cli_out' = [cli_out EXCEPT !.written = @ \o ReportFiles(cli_args)]
    /\ pc' = "reports written"
    /\ UNCHANGED <<profile, cli_args, report_again, condVars, result, when_list, instVars,
                   deriveVars, validateVars, concurrentVars, agentVars>>

\* the quality gate: the value main returns
Exit ==
    /\ pc = "reports written"
    /\ cli_out' = [cli_out EXCEPT !.code = ExitCode(cli_args, instance.validation)]
    /\ pc' = "exited"
    /\ UNCHANGED <<profile, cli_args, condVars, result, when_list, instVars, deriveVars,
                   validateVars, reportVars, concurrentVars, agentVars>>

NextMain == ProcessRequirement \/ Assemble \/ WriteInstance \/ WriteReports \/ Exit

SpecMain == InitMain /\ [][NextMain]_vars

(***************************************************************************)
(* Specification of the requirement checks: one call of                     *)
(* validate_requirement_instance.                                           *)
(***************************************************************************)
\* the pieces the enumerated requirement texts are concatenations of: the
\* term shall alone, between blanks and capitalised, a full stop, a blank,
\* and/or in two letter cases, and two placeholders
ValPieces ==
    {<<"s", "h", "a", "l", "l">>,
     SHALL_SPACED,
     <<"S", "h", "a", "l", "l">>,
     <<".">>,
     <<" ">>,
     ANDOR,
     <<"A", "N", "D", "/", "O", "R">>,
     <<"{", "{", "x", "}", "}">>,
     <<"{", "{", " ", "y", " ", "}", "}">>}

ValTexts == {Concat(ps) : ps \in UNION {[1..m -> ValPieces] : m \in 0..MaxTextPieces}}

\* the values of the key verification: absent, nothing given, a blank
\* acceptance, both given, a method that is no list with an acceptance that is
\* no string, and a string where the dict should be
ValVerifications ==
    {VerOther("absent"),
     VerDict(ListV(<<>>), StrV(<<>>)),
     VerDict(ListV(<<>>), StrV(<<" ">>)),
     OkVerification,
     VerDict(IntV(1), IntV(1)),
     VerOther("str")}

\* the enumerated requirements: the text a string, null or a number; the type
\* absent, functional or programmatic; tbd_parameters absent, a list of names
\* or a number
ValReqs ==
    {Req(StrV(ReqId(1)), txt, type, verification, tbd) :
        txt \in {StrV(s) : s \in ValTexts} \cup {Null, IntV(5)},
        type \in {Absent, StrV(FUNCTIONAL), StrV(PROGRAMMATIC)},
        verification \in ValVerifications,
        tbd \in {Absent, ListV(<<KeyX>>), ListV(<<KeyY>>), ListV(<<KeyX, KeyY>>), IntV(1)}}

InitValidateReq ==
    /\ pc = "start"
    /\ req \in ValReqs
    /\ req_issues = NoReqIssues
    /\ v_instance = AppV("absent", <<>>, 0)
    /\ validation = NoValidation
    /\ ReportIdle
    /\ profile = EmptyProfile
    /\ cond = <<>>
    /\ parsed = NoParse("")
    /\ result = NoResult
    /\ when_list = <<>>
    /\ text = <<>>
    /\ inst = NoInst
    /\ DeriveIdle
    /\ MainIdle
    /\ ConcurrentIdle
    /\ AgentIdle

ValidateRequirement ==
    /\ pc = "start"
    /\ req_issues' = validate_requirement_instance(req)
    /\ pc' = "validated"
    /\ UNCHANGED <<req, v_instance, validation, reportVars, profile, condVars, result,
                   when_list, instVars, deriveVars,
                   mainVars, concurrentVars, agentVars>>

SpecValidateReq == InitValidateReq /\ [][ValidateRequirement]_vars

(***************************************************************************)
(* Specification of the instance check: one call of validate_instance.      *)
(***************************************************************************)
\* the entries the enumerated lists are made of: a clean requirement, one
\* without verification data, a tracked and an untracked placeholder, and/or
\* in a requirement without id, two shall, an entry that is no object, and a
\* text, a verification and a tbd list of the wrong type
EntryPool ==
    {Req(StrV(ReqId(1)), StrV(SHALL_SPACED), StrV(FUNCTIONAL), OkVerification, ListV(<<>>)),
     Req(StrV(ReqId(2)), StrV(SHALL_SPACED), StrV(FUNCTIONAL),
         VerDict(ListV(<<>>), StrV(<<>>)), ListV(<<>>)),
     Req(StrV(ReqId(1)), StrV(Placeholder(KeyX)), StrV(PROGRAMMATIC), OkVerification,
         ListV(<<KeyX>>)),
     Req(StrV(ReqId(2)), StrV(Placeholder(KeyX)), StrV(FUNCTIONAL), OkVerification,
         ListV(<<>>)),
     Req(Absent, StrV(ANDOR), Absent, OkVerification, Absent),
     Req(StrV(ReqId(1)), StrV(SHALL_SPACED \o SHALL_SPACED), StrV(FUNCTIONAL),
         OkVerification, ListV(<<>>)),
     NotObject,
     Req(StrV(ReqId(1)), IntV(5), StrV(FUNCTIONAL), OkVerification, ListV(<<>>)),
     Req(StrV(ReqId(1)), StrV(SHALL_SPACED), StrV(FUNCTIONAL), VerOther("str"), ListV(<<>>)),
     Req(StrV(ReqId(1)), StrV(Placeholder(KeyX)), StrV(FUNCTIONAL), OkVerification,
         IntV(1))}

\* the values of applicable_requirements: lists of entries, and absent, null,
\* an empty dict, an empty string, zero, a string, a dict, a number
ValInstances ==
    {AppV("list", es, Len(es)) : es \in UNION {[1..m -> EntryPool] : m \in 0..MaxEntries}}
        \cup {AppV("absent", <<>>, 0), AppV("null", <<>>, 0), AppV("dict", <<>>, 0),
              AppV("str", <<>>, 0), AppV("int", <<>>, 0),
              AppV("str", <<>>, 1), AppV("dict", <<>>, 1), AppV("int", <<>>, 5)}

InitValidate ==
    /\ pc = "start"
    /\ v_instance \in ValInstances
    /\ validation = NoValidation
    /\ req = Req(Absent, Absent, Absent, VerOther("absent"), Absent)
    /\ req_issues = NoReqIssues
    /\ ReportIdle
    /\ profile = EmptyProfile
    /\ cond = <<>>
    /\ parsed = NoParse("")
    /\ result = NoResult
    /\ when_list = <<>>
    /\ text = <<>>
    /\ inst = NoInst
    /\ DeriveIdle
    /\ MainIdle
    /\ ConcurrentIdle
    /\ AgentIdle

ValidateInstance ==
    /\ pc = "start"
    /\ validation' = validate_instance(v_instance)
    /\ pc' = "validated"
    /\ UNCHANGED <<req, req_issues, v_instance, reportVars, profile, condVars, result,
                   when_list, instVars, deriveVars,
                   mainVars, concurrentVars, agentVars>>

SpecValidate == InitValidate /\ [][ValidateInstance]_vars

(***************************************************************************)
(* Specification of the aggregator: one call of build_report.               *)
(***************************************************************************)
\* an issue dict of the instance given to build_report
RepIssue(sev, code, wording, rid) ==
    [severity |-> sev, code |-> code, message |-> Msg(wording, <<>>, 0),
     requirement_id |-> rid]

\* the issues the enumerated lists are made of: one group with three
\* messages, a repeated one and two owners, groups of the other severities,
\* an empty message, an issue without owner, two unknown severities (one of
\* them the default of an issue without severity) and an issue without code
RepIssuePool ==
    {RepIssue("error", <<"A">>, "m1", StrV(ReqId(1))),
     RepIssue("error", <<"A">>, "m1", StrV(ReqId(2))),
     RepIssue("error", <<"A">>, "m2", StrV(ReqId(1))),
     RepIssue("error", <<"A">>, "m3", Absent),
     RepIssue("warning", <<"A">>, "m1", StrV(ReqId(1))),
     RepIssue("warning", <<"B">>, "m1", StrV(ReqId(2))),
     RepIssue("info", <<"B">>, "", StrV(ReqId(1))),
     RepIssue("x", <<"A">>, "m1", StrV(ReqId(1))),
     RepIssue(NoKey, <<"A">>, "m1", Absent),
     RepIssue("error", <<NoKey>>, "m1", StrV(ReqId(1)))}

VALVE_PROFILE == VALVE \o PROFILE_SUFFIX
PUMP_PROFILE == <<"p", "u", "m", "p">> \o PROFILE_SUFFIX

\* the top-level keys of the enumerated instances: none; a valve profile
\* with its tag; a pump profile whose smallest tag key holds an empty string
\* beside a valve profile; a valve profile that is no dict beside a key that
\* only contains the suffix; an empty valve profile; a valve profile
\* whose tag is a number
RepTops ==
    {EmptyDict,
     [k \in {VALVE_PROFILE} |-> TopDict([f \in {VALVE_TAG} |-> StrV(<<"V", "1">>)])],
     [k \in {VALVE_PROFILE, PUMP_PROFILE} |->
         IF k = PUMP_PROFILE
         THEN TopDict([f \in {A_TAG, VALVE_TAG} |->
                          IF f = A_TAG THEN StrV(<<>>) ELSE StrV(<<"P", "1">>)])
         ELSE TopDict([f \in {VALVE_TAG} |-> StrV(<<"V", "1">>)])],
     [k \in {VALVE_PROFILE, PROFILE_SUFFIX \o <<"s">>} |->
         IF k = VALVE_PROFILE THEN [t |-> "str", fields |-> EmptyProfile]
         ELSE TopDict([f \in {VALVE_TAG} |-> StrV(<<"V", "1">>)])],
     [k \in {VALVE_PROFILE} |-> TopDict(EmptyProfile)],
     [k \in {VALVE_PROFILE} |-> TopDict([f \in {VALVE_TAG, KeyK} |-> IntV(7)])]}

InitReport ==
    /\ pc = "start"
    /\ rep_issues \in UNION {[1..m -> RepIssuePool] : m \in 0..MaxIssues}
    /\ by_code = <<>>
    /\ \E top \in RepTops : \E validated \in BOOLEAN :
          /\ ~validated => rep_issues = <<>>
          /\ rep_instance = RepInstance(top, validated, rep_issues)
    /\ report = NoReport
    /\ report_again = [head |-> NoReport, by_code |-> <<>>]
    /\ ValidateIdle
    /\ profile = EmptyProfile
    /\ cond = <<>>
    /\ parsed = NoParse("")
    /\ result = NoResult
    /\ when_list = <<>>
    /\ text = <<>>
    /\ inst = NoInst
    /\ DeriveIdle
    /\ MainIdle
    /\ ConcurrentIdle
    /\ AgentIdle

\* report = build_report(instance)
BuildReport ==
    /\ pc = "start"
    /\ by_code' = build_report(rep_issues)
    /\ report' = ReportHead(rep_instance)
    /\ pc' = "reported"
    /\ UNCHANGED <<rep_issues, rep_instance, report_again, validateVars, profile, condVars,
                   result, when_list, instVars, deriveVars,
                   mainVars, concurrentVars, agentVars>>

\* a second call of build_report on the instance of the first
BuildReportAgain ==
    /\ pc = "reported"
    /\ report_again' = [head |-> ReportHead(rep_instance), by_code |-> build_report(rep_issues)]
    /\ pc' = "reported twice"
    /\ UNCHANGED <<rep_issues, rep_instance, by_code, report, validateVars, profile, condVars,
                   result, when_list, instVars, deriveVars,
                   mainVars, concurrentVars, agentVars>>

NextReport == BuildReport \/ BuildReportAgain

SpecReport == InitReport /\ [][NextReport]_vars

(***************************************************************************)
(* Properties of the parser and the evaluator.                              *)
(***************************************************************************)
\* the operators in the order the specification gives: >=, <=, >, <, =
Precedence == << <<">", "=">>, <<"<", "=">>, <<">">>, <<"<">>, <<"=">> >>

\* the n-th operator is the first, in that order, to occur in c
FirstFound(c, n) ==
    /\ Contains(c, Precedence[n])
    /\ \A m \in 1..(n - 1) : ~Contains(c, Precedence[m])

NoOperator(c) == \A n \in 1..5 : ~Contains(c, Precedence[n])

\* the text of c before the leftmost occurrence of op
Before(c, op) ==
    LET i == CHOOSE k \in 1..Len(c) :
                 OccursAt(c, op, k) /\ \A j \in 1..(k - 1) : ~OccursAt(c, op, j)
    IN  SubSeq(c, 1, i - 1)

\* the text of c after the leftmost occurrence of op
After(c, op) == SubSeq(c, Len(Before(c, op)) + Len(op) + 1, Len(c))

\* C3: parse_simple_condition tries >=, <=, >, <, = in that order; the first
\* operator that occurs in the condition splits it at its leftmost occurrence
\* into the trimmed key and the trimmed right-hand side; parsing fails when
\* either is empty or when no operator occurs.
C3_ParsePrecedence ==
    pc = "parsed" =>
        LET c == Strip(cond)
        IN  IF NoOperator(c) THEN ~parsed.ok
            ELSE \E n \in 1..5 :
                    /\ FirstFound(c, n)
                    /\ LET key == Strip(Before(c, Precedence[n]))
                           rhs == Strip(After(c, Precedence[n]))
                       IN  IF key = <<>> \/ rhs = <<>> THEN ~parsed.ok
                           ELSE /\ parsed.ok
                                /\ parsed.key = key
                                /\ parsed.op = Precedence[n]
                                /\ parsed.rhs = rhs

\* "k>=1" holds both ">=" and ">" and "=": it is split at ">="
C3_Witness ==
    /\ pc = "parsed"
    /\ cond = <<"k", ">", "=", "1">>
    /\ parsed.ok /\ parsed.op = <<">", "=">> /\ parsed.rhs = <<"1">>

\* the parts of a condition that has an operator, as the specification splits it
PartsOf(c) ==
    LET n == CHOOSE k \in 1..5 : FirstFound(c, k)
    IN  [op |-> Precedence[n],
         key |-> Strip(Before(c, Precedence[n])),
         rhs |-> Strip(After(c, Precedence[n]))]

\* the cases C1 lists, for a condition other than the keyword always
FailureCase(p, c) ==
    \/ NoOperator(c)
    \/ /\ ~NoOperator(c)
       /\ LET q == PartsOf(c)
          IN  \/ q.key = <<>>
              \/ q.rhs = <<>>
              \/ Get(p, q.key) = Null
              \/ /\ q.op # <<"=">>
                 /\ (~PyFloat(Get(p, q.key)).ok \/ ~PyFloatStr(q.rhs).ok)

\* C1: eval_condition returns a result for every profile and condition string
\* and never raises; a condition (other than the keyword always, which is
\* answered before parsing) with no operator, an empty key, an empty right-hand
\* side, a key that is missing or null in the profile, or a non-numeric operand
\* of a numeric operator yields matched = false with at least one reason.
C1_NeverRaises ==
    pc = "evaluated" =>
        /\ result.raised = FALSE
        /\ result.matched \in BOOLEAN
        /\ result.matched => result.reasons = <<>>
        /\ (Strip(cond) # ALWAYS /\ FailureCase(profile, Strip(cond)))
               => (~result.matched /\ Len(result.reasons) >= 1)

\* a string operand under a numeric operator
C1_Witness ==
    /\ pc = "evaluated"
    /\ cond = <<"k", ">", "k">>
    /\ profile = [x \in {KeyK} |-> IntV(1)]
    /\ ~result.matched /\ Len(result.reasons) = 1

\* a condition of the equality form: no comparison operator occurs, the first
\* "=" splits it, the trimmed key and the trimmed right-hand side are not empty
EqForm(c) ==
    /\ ~Contains(c, <<">">>) /\ ~Contains(c, <<"<">>) /\ Contains(c, <<"=">>)
    /\ Strip(Before(c, <<"=">>)) # <<>>
    /\ Strip(After(c, <<"=">>)) # <<>>

\* the alternatives a, b, c of key=a|b|c as they are written
Alternatives(c) == Split(Strip(After(c, <<"=">>)), <<"|">>)

\* C2 as stated: a condition key=a|b|c matches iff the string form of the
\* profile's value for key is exactly one of the alternatives as written.
C2_ExactAlternative ==
    (pc = "evaluated" /\ EqForm(Strip(cond))) =>
        LET c == Strip(cond)
            v == Get(profile, Strip(Before(c, <<"=">>)))
            alts == Alternatives(c)
        IN  result.matched <=>
                (v # Null /\ \E i \in 1..Len(alts) : alts[i] = PyStr(v))

\* C2 amended: a condition key=a|b|c matches iff the profile has a non-null
\* value for the trimmed key whose string form equals one of the alternatives
\* after surrounding whitespace is trimmed from each.
C2_TrimmedAlternative ==
    (pc = "evaluated" /\ EqForm(Strip(cond))) =>
        LET c == Strip(cond)
            v == Get(profile, Strip(Before(c, <<"=">>)))
            alts == Alternatives(c)
        IN  result.matched <=>
                (v # Null /\ \E i \in 1..Len(alts) : Strip(alts[i]) = PyStr(v))

\* the second of two alternatives, written with a blank before it, is matched
C2_Witness ==
    /\ pc = "evaluated"
    /\ cond = <<"k", "=", "|", " ", "1">>
    /\ profile = [x \in {KeyK} |-> StrV(<<"1">>)]
    /\ result.matched

\* a condition of a numeric form: its operator is one of >=, <=, >, <
NumForm(c) ==
    /\ ~NoOperator(c)
    /\ PartsOf(c).op # <<"=">>
    /\ PartsOf(c).key # <<>>
    /\ PartsOf(c).rhs # <<>>

\* the comparison an operator stands for
Holds(op, a, b) ==
    \/ op = <<">">> /\ a > b
    \/ op = <<">", "=">> /\ a >= b
    \/ op = <<"<">> /\ a < b
    \/ op = <<"<", "=">> /\ a <= b

\* C4: for a numeric condition key<op>n, when the profile value and n both
\* parse as numbers the condition matches iff value <op> n; when either does
\* not parse (or the value is missing) the result is a non-match.
C4_NumericCompare ==
    (pc = "evaluated" /\ NumForm(Strip(cond))) =>
        LET q == PartsOf(Strip(cond))
            v == Get(profile, q.key)
            a == PyFloat(v)
            b == PyFloatStr(q.rhs)
        IN  IF v # Null /\ a.ok /\ b.ok
            THEN result.matched <=> Holds(q.op, a.n, b.n)
            ELSE ~result.matched

\* 1 >= 1 matches: the boundary of >= against >
C4_Witness ==
    /\ pc = "evaluated"
    /\ cond = <<"k", ">", "=", "1">>
    /\ profile = [x \in {KeyK} |-> IntV(1)]
    /\ result.matched

\* whether a condition fails for a profile
Fails(p, c) == ~eval_condition(p, c).matched

\* the failing conditions of a rule, in rule order
Failing(p, wl) == SelectSeq(wl, LAMBDA c : Fails(p, c))

\* C5: eval_when matches iff every condition of the list matches (the keyword
\* always matches for every profile with no reasons); when a condition fails
\* the reasons returned are the reasons of every failing condition, in list
\* order, none dropped after the first failure.
C5_AndSemantics ==
    pc = "evaluated" =>
        /\ result.matched <=>
               \A i \in 1..Len(when_list) : eval_condition(profile, when_list[i]).matched
        /\ eval_condition(profile, ALWAYS) = [raised |-> FALSE, matched |-> TRUE, reasons |-> <<>>]
        /\ LET failing == Failing(profile, when_list)
           IN  result.reasons =
                   Concat([i \in 1..Len(failing) |-> eval_condition(profile, failing[i]).reasons])

\* a rule with a matching condition between two failing ones: two reasons
C5_Witness ==
    /\ pc = "evaluated"
    /\ when_list = << <<"k">>, ALWAYS, <<"k", ">", "1">> >>
    /\ profile = [x \in {KeyK} |-> IntV(1)]
    /\ ~result.matched
    /\ Len(result.reasons) = 2

(***************************************************************************)
(* Properties of the instantiator.                                          *)
(***************************************************************************)
\* s[i..j] is a placeholder marker: "{{", optional whitespace, an identifier,
\* optional whitespace, "}}"
IsMarker(s, i, j) ==
    /\ i >= 1 /\ j <= Len(s) /\ j >= i + 4
    /\ s[i] = "{" /\ s[i + 1] = "{" /\ s[j - 1] = "}" /\ s[j] = "}"
    /\ \E a \in (i + 2)..(j - 2) : \E b \in a..(j - 2) :
          /\ \A k \in (i + 2)..(a - 1) : s[k] = " "
          /\ IsIdStart(s[a])
          /\ \A k \in a..b : IsIdChar(s[k])
          /\ \A k \in (b + 1)..(j - 2) : s[k] = " "

\* the name a marker holds
MarkerName(m) == Strip(SubSeq(m, 3, Len(m) - 2))

\* the marker occurrences of a text from index i on, left to right, none
\* overlapping: pairs <<first index, last index>>
RECURSIVE Occurrences(_, _)
Occurrences(s, i) ==
    IF i > Len(s) THEN <<>>
    ELSE IF \E j \in i..Len(s) : IsMarker(s, i, j)
    THEN LET j == CHOOSE k \in i..Len(s) : IsMarker(s, i, k)
         IN  << <<i, j>> >> \o Occurrences(s, j + 1)
    ELSE Occurrences(s, i + 1)

\* the name of the n-th occurrence
OccName(s, occ) == MarkerName(SubSeq(s, occ[1], occ[2]))

\* the text between the occurrences, and for each occurrence what replaces it:
\* the value's string form when the profile has a non-null value, else the
\* marker m as it stands in the text (or, with canon, as "{{name}}")
RECURSIVE Rebuild(_, _, _, _, _)
Rebuild(s, p, occs, i, canon) ==
    IF occs = <<>> THEN SubSeq(s, i, Len(s))
    ELSE LET o == Head(occs)
             m == SubSeq(s, o[1], o[2])
             v == Get(p, MarkerName(m))
         IN  SubSeq(s, i, o[1] - 1)
                 \o (IF v # Null THEN PyStr(v)
                     ELSE IF canon THEN <<"{", "{">> \o MarkerName(m) \o <<"}", "}">>
                     ELSE m)
                 \o Rebuild(s, p, Tail(occs), o[2] + 1, canon)

\* the names of the occurrences that have a non-null value in the profile
ResolvedNames(s, p) ==
    {OccName(s, Occurrences(s, 1)[n]) : n \in 1..Len(Occurrences(s, 1))}
        \cap {k \in DOMAIN p : p[k] # Null}

\* the names of the occurrences that have none
UnresolvedNames(s, p) ==
    {OccName(s, Occurrences(s, 1)[n]) : n \in 1..Len(Occurrences(s, 1))}
        \ {k \in DOMAIN p : p[k] # Null}

\* the index of the first occurrence of a name
FirstOccurrence(s, name) ==
    CHOOSE n \in 1..Len(Occurrences(s, 1)) :
        /\ OccName(s, Occurrences(s, 1)[n]) = name
        /\ \A k \in 1..(n - 1) : OccName(s, Occurrences(s, 1)[k]) # name

\* the used map and the unresolved list the specification describes
TracksNames(s, p, r) ==
    /\ DOMAIN r.used = ResolvedNames(s, p)
    /\ \A k \in DOMAIN r.used : r.used[k] = p[k]
    /\ {r.tbd[n] : n \in 1..Len(r.tbd)} = UnresolvedNames(s, p)
    /\ \A a \in 1..Len(r.tbd) : \A b \in 1..Len(r.tbd) :
          a < b => FirstOccurrence(s, r.tbd[a]) < FirstOccurrence(s, r.tbd[b])

\* C6: instantiate_text makes one pass over the text: an occurrence whose name
\* has a non-null value is replaced by the value's string form and recorded in
\* the used map; an occurrence whose name is absent or null is left unchanged
\* in the output and its name is listed once, in order of first occurrence;
\* substituted values are not expanded again.
C6_SinglePassUnchanged ==
    pc = "instantiated" =>
        /\ inst.out = Rebuild(text, profile, Occurrences(text, 1), 1, FALSE)
        /\ TracksNames(text, profile, inst)

\* C6, what holds of the code instead: as above, except that an occurrence
\* without value is written back as "{{name}}", its inner whitespace dropped.
C6_SinglePassCanonical ==
    pc = "instantiated" =>
        /\ inst.out = Rebuild(text, profile, Occurrences(text, 1), 1, TRUE)
        /\ TracksNames(text, profile, inst)

(***************************************************************************)
(* Properties of the derivation.                                            *)
(***************************************************************************)
\* the requirements of a template in template order: set after set, each in
\* the order of its list
TemplateOrder(t) == Concat([m \in 1..Len(t) |-> t[m]])

\* whether the rule of a requirement (always, when it has none) matches
RuleMatches(p, r) ==
    \A n \in 1..Len(IF r.has_when THEN r.when ELSE <<ALWAYS>>) :
        eval_condition(p, (IF r.has_when THEN r.when ELSE <<ALWAYS>>)[n]).matched

\* the identifiers of a list of entries, in list order
Ids(l) == [n \in 1..Len(l) |-> l[n].id]

\* C7 as stated: the tbd_parameters of every applicable requirement of the
\* instance are exactly the placeholder names still present in its text.
C7_TbdIsPlaceholdersOfText ==
    pc = "done" =>
        \A n \in 1..Len(instance.applicable_requirements) :
            LET a == instance.applicable_requirements[n]
            IN  Elems(a.tbd_parameters) = FindIterNames(a.text, 1)

\* C8: the summary counts of the instance are the lengths of its two lists
\* and the number of distinct names in the tbd lists of its applicable
\* requirements.
C8_SummaryCounts ==
    pc = "done" =>
        /\ instance.summary.applicable_count = Len(instance.applicable_requirements)
        /\ instance.summary.non_applicable_count = Len(instance.non_applicable_requirements)
        /\ instance.summary.tbd_parameter_count =
               Cardinality(UNION {Elems(instance.applicable_requirements[n].tbd_parameters) :
                                     n \in 1..Len(instance.applicable_requirements)})

\* two applicable requirements leave the same name unresolved: it counts once
C8_Witness ==
    /\ pc = "done"
    /\ Len(instance.applicable_requirements) = 2
    /\ instance.applicable_requirements[1].tbd_parameters = <<KeyX>>
    /\ instance.applicable_requirements[2].tbd_parameters = <<KeyX>>
    /\ instance.summary.tbd_parameter_count = 1
    /\ instance.summary.non_applicable_count = 1

\* a template of one requirement whose rule is ["always"] or absent and whose
\* text holds no placeholder
SingleUnconditional(t) ==
    /\ Len(TemplateOrder(t)) = 1
    /\ LET r == TemplateOrder(t)[1]
       IN  /\ (~r.has_when \/ r.when = <<ALWAYS>>)
           /\ Occurrences(r.text, 1) = <<>>

\* C9: such a template yields, for every profile, one applicable requirement
\* of status draft and no non-applicable record; in general an applicable
\* requirement is draft when its unresolved list is empty and review_required
\* otherwise.
C9_DraftStatus ==
    pc = "done" =>
        /\ SingleUnconditional(template) =>
               /\ Len(instance.applicable_requirements) = 1
               /\ instance.applicable_requirements[1].status = "draft"
               /\ instance.non_applicable_requirements = <<>>
        /\ \A n \in 1..Len(instance.applicable_requirements) :
               LET a == instance.applicable_requirements[n]
               IN  /\ a.status \in {"draft", "review_required"}
                   /\ a.status = "draft" <=> a.tbd_parameters = <<>>

\* a template of one requirement with rule ["always"] and a text without
\* placeholder has been derived into one draft
C9_Witness ==
    /\ pc = "done"
    /\ SingleUnconditional(template)
    /\ TemplateOrder(template)[1].has_when
    /\ instance.applicable_requirements[1].status = "draft"

\* C10: every requirement of every set is visited in template order: each is
\* in the output once, among the applicable requirements iff its rule matched
\* the profile and among the non-applicable ones otherwise, and both lists keep
\* the order of the template.
C10_OrderAndPartition ==
    pc = "done" =>
        LET reqs == TemplateOrder(template)
            app == Ids(instance.applicable_requirements)
            non == Ids(instance.non_applicable_requirements)
        IN  /\ Len(app) + Len(non) = Len(reqs)
            /\ \A n \in 1..Len(reqs) :
                   IF RuleMatches(profile, reqs[n])
                   THEN /\ Cardinality({k \in 1..Len(app) : app[k] = reqs[n].id}) = 1
                        /\ \A k \in 1..Len(non) : non[k] # reqs[n].id
                   ELSE /\ Cardinality({k \in 1..Len(non) : non[k] = reqs[n].id}) = 1
                        /\ \A k \in 1..Len(app) : app[k] # reqs[n].id
            /\ app = Ids(SelectSeq(reqs, LAMBDA r : RuleMatches(profile, r)))
            /\ non = Ids(SelectSeq(reqs, LAMBDA r : ~RuleMatches(profile, r)))

\* two sets, three requirements: the first and the third apply, the second
\* (of the first set) does not
C10_Witness ==
    /\ pc = "done"
    /\ Len(template) = 2
    /\ Len(template[1]) = 2
    /\ Ids(instance.applicable_requirements) = <<ReqId(1), ReqId(3)>>
    /\ Ids(instance.non_applicable_requirements) = <<ReqId(2)>>

(***************************************************************************)
(* Properties of the requirement checks.                                    *)
(***************************************************************************)
\* validate_requirement_instance has returned its issues
Returned == pc = "validated" /\ ~req_issues.raised

\* the text the checks read: the empty string when the key is absent or null
TextOf(r) == IF r.text.t = "str" THEN r.text.s ELSE <<>>

\* the placeholder names present in a text
PlaceholderNames(s) == {OccName(s, Occurrences(s, 1)[n]) : n \in 1..Len(Occurrences(s, 1))}

\* the names listed in tbd_parameters
TbdNames(r) == IF r.tbd_parameters.t = "list" THEN Elems(r.tbd_parameters.s) ELSE {}

\* the issues of a code, in the order of the list
WithCode(issues, code) == SelectSeq(issues, LAMBDA i : i.code = code)

\* the codes of a list of issues
Codes(issues) == [n \in 1..Len(issues) |-> issues[n].code]

\* a verification with an empty method list and an empty or blank acceptance
NoVerificationData(r) ==
    /\ r.verification.t = "dict"
    /\ r.verification.method.t = "list"
    /\ r.verification.method.s = <<>>
    /\ r.verification.acceptance.t = "str"
    /\ Strip(r.verification.acceptance.s) = <<>>

\* the overall status of an instance whose applicable requirements are rs
StatusOfInstance(rs) == validate_instance(AppV("list", rs, Len(rs))).overall_status

\* a requirement that raises no issue
CleanReq ==
    Req(StrV(ReqId(2)), StrV(SHALL_SPACED), StrV(FUNCTIONAL), OkVerification, ListV(<<>>))

\* C11 as stated: a requirement whose verification has an empty method list
\* and an empty or blank acceptance gets exactly two error issues,
\* REQ_VERIFICATION_METHOD_MISSING and REQ_VERIFICATION_ACCEPTANCE_MISSING, and
\* an instance that contains it has overall_status fail.
C11_ExactlyTwoErrors ==
    (Returned /\ NoVerificationData(req)) =>
        /\ Codes(OfSeverity(req_issues.issues, "error")) =
               <<Code("REQ_VERIFICATION_METHOD_MISSING"), Code("REQ_VERIFICATION_ACCEPTANCE_MISSING")>>
        /\ StatusOfInstance(<<req>>) = "fail"
        /\ StatusOfInstance(<<CleanReq, req>>) = "fail"

\* C11 amended: the two verification checks are both evaluated: such a
\* requirement gets one REQ_VERIFICATION_METHOD_MISSING and one
\* REQ_VERIFICATION_ACCEPTANCE_MISSING issue, both errors and in this order;
\* its only other error can be REQ_PLACEHOLDER_UNTRACKED, so these are its only
\* two errors exactly when every placeholder of its text is tracked; and an
\* instance that contains it has overall_status fail.
C11_BothVerificationErrors ==
    (Returned /\ NoVerificationData(req)) =>
        LET errors == Codes(OfSeverity(req_issues.issues, "error"))
            both == <<Code("REQ_VERIFICATION_METHOD_MISSING"), Code("REQ_VERIFICATION_ACCEPTANCE_MISSING")>>
        IN  /\ Codes(WithCode(req_issues.issues, Code("REQ_VERIFICATION_METHOD_MISSING"))) \o
                   Codes(WithCode(req_issues.issues, Code("REQ_VERIFICATION_ACCEPTANCE_MISSING"))) = both
            /\ SubSeq(Codes(req_issues.issues), 1, 2) = both
            /\ SelectSeq(errors, LAMBDA c : c # Code("REQ_PLACEHOLDER_UNTRACKED")) = both
            /\ errors = both <=> PlaceholderNames(TextOf(req)) \subseteq TbdNames(req)
            /\ StatusOfInstance(<<req>>) = "fail"
            /\ StatusOfInstance(<<CleanReq, req>>) = "fail"

\* an empty method list and a blank acceptance, in a text that has the term
\* shall and an untracked placeholder: three errors
C11_Witness ==
    /\ Returned
    /\ req.verification = VerDict(ListV(<<>>), StrV(<<" ">>))
    /\ req.text = StrV(SHALL_SPACED \o <<"{", "{", "x", "}", "}">>)
    /\ req.tbd_parameters = Absent
    /\ Codes(req_issues.issues) =
           <<Code("REQ_VERIFICATION_METHOD_MISSING"), Code("REQ_VERIFICATION_ACCEPTANCE_MISSING"),
             Code("REQ_PLACEHOLDER_UNTRACKED")>>

\* C12: REQ_PLACEHOLDER_UNTRACKED (error, listing the untracked names) is
\* raised iff a placeholder name of the text is missing from tbd_parameters;
\* REQ_PLACEHOLDER_TBD (warning) iff the text has a placeholder and all are
\* listed; never both, and neither when the text has no placeholder.
C12_PlaceholderTracking ==
    Returned =>
        LET names == PlaceholderNames(TextOf(req))
            untracked == names \ TbdNames(req)
            err == WithCode(req_issues.issues, Code("REQ_PLACEHOLDER_UNTRACKED"))
            warn == WithCode(req_issues.issues, Code("REQ_PLACEHOLDER_TBD"))
        IN  /\ Len(err) = (IF untracked # {} THEN 1 ELSE 0)
            /\ Len(warn) = (IF names # {} /\ untracked = {} THEN 1 ELSE 0)
            /\ Len(err) + Len(warn) <= 1
            /\ names = {} => Len(err) + Len(warn) = 0
            /\ \A n \in 1..Len(err) :
                   /\ err[n].severity = "error"
                   /\ Elems(err[n].message.names) = untracked
                   /\ Len(err[n].message.names) = Cardinality(untracked)
            /\ \A n \in 1..Len(warn) : warn[n].severity = "warning"

\* two placeholders, one of them listed: the error names the other one
C12_Witness ==
    /\ Returned
    /\ req.text = StrV(<<"{", "{", "x", "}", "}", "{", "{", " ", "y", " ", "}", "}">>)
    /\ req.tbd_parameters = ListV(<<KeyX>>)
    /\ \E n \in 1..Len(req_issues.issues) :
          /\ req_issues.issues[n].code = Code("REQ_PLACEHOLDER_UNTRACKED")
          /\ req_issues.issues[n].message.names = <<KeyY>>

\* a and b are the same letter, whatever their case, or the same character
SameLetter(a, b) ==
    \/ a = b
    \/ \E k \in 1..Len(LowerAlphabet) :
          {a, b} = {LowerAlphabet[k], UpperAlphabet[k]}

\* w occurs in s at index i, letters compared whatever their case
CaselessAt(s, w, i) ==
    /\ i >= 1
    /\ i + Len(w) - 1 <= Len(s)
    /\ \A k \in 1..Len(w) : SameLetter(s[i + k - 1], w[k])

\* a character a word is made of
IsWordChar(ch) == ch \in LowerLetters \cup UpperLetters \cup DigitChars \cup {"_"}

\* the indices at which the term shall stands in s as a whole word, whatever
\* its case: no word character before it and none after it
ShallAt(s) ==
    {i \in 1..Len(s) :
        /\ CaselessAt(s, <<"s", "h", "a", "l", "l">>, i)
        /\ (i = 1 \/ ~IsWordChar(s[i - 1]))
        /\ (i + 5 > Len(s) \/ ~IsWordChar(s[i + 5]))}

\* C13 as stated: for a type other than programmatic REQ_SHALL_NOT_FOUND
\* (a warning) is raised iff the text does not contain the term shall as a
\* whole word, whatever its case; for the type programmatic it never is.
C13_ShallWholeWord ==
    Returned =>
        LET found == WithCode(req_issues.issues, Code("REQ_SHALL_NOT_FOUND"))
        IN  IF req.type = StrV(PROGRAMMATIC) THEN found = <<>>
            ELSE /\ found # <<>> <=> ShallAt(TextOf(req)) = {}
                 /\ \A n \in 1..Len(found) : found[n].severity = "warning"

\* C13, what holds of the code instead: the term counts only when a blank or
\* an end of the text stands on either side of it.
C13_ShallBetweenBlanks ==
    Returned =>
        LET found == WithCode(req_issues.issues, Code("REQ_SHALL_NOT_FOUND"))
            s == <<" ">> \o TextOf(req) \o <<" ">>
        IN  IF req.type = StrV(PROGRAMMATIC) THEN found = <<>>
            ELSE /\ found # <<>> <=>
                        ~\E i \in 1..Len(s) : CaselessAt(s, <<" ", "s", "h", "a", "l", "l", " ">>, i)
                 /\ Len(found) <= 1
                 /\ \A n \in 1..Len(found) : found[n].severity = "warning"

\* C14: a requirement whose text contains and/or, in any letter case, gets a
\* REQ_ATOMICITY_ANDOR warning, whatever the rest of the text, the type, the
\* verification data and the other issues of the requirement.
C14_AndOrAlwaysWarned ==
    (Returned /\ \E i \in 1..Len(TextOf(req)) :
                     CaselessAt(TextOf(req), <<"a", "n", "d", "/", "o", "r">>, i)) =>
        /\ Len(WithCode(req_issues.issues, Code("REQ_ATOMICITY_ANDOR"))) = 1
        /\ WithCode(req_issues.issues, Code("REQ_ATOMICITY_ANDOR"))[1].severity = "warning"
        /\ WithCode(req_issues.issues, Code("REQ_ATOMICITY_ANDOR"))[1].requirement_id = req.id

\* AND/OR in capitals, in a programmatic requirement without verification data
\* and with an untracked placeholder: the warning comes with three errors
C14_Witness ==
    /\ Returned
    /\ req.text = StrV(<<"A", "N", "D", "/", "O", "R", "{", "{", "x", "}", "}">>)
    /\ req.type = StrV(PROGRAMMATIC)
    /\ req.verification = VerDict(ListV(<<>>), StrV(<<>>))
    /\ Len(OfSeverity(req_issues.issues, "error")) = 3
    /\ Len(WithCode(req_issues.issues, Code("REQ_ATOMICITY_ANDOR"))) = 1

\* C15 as stated: REQ_ATOMICITY_MULTI_SHALL (a warning) is raised iff the term
\* shall occurs more than once in the text, and the count in its message is
\* the number of occurrences of the term in the text.
C15_MultiShallCount ==
    Returned =>
        LET found == WithCode(req_issues.issues, Code("REQ_ATOMICITY_MULTI_SHALL"))
            occurrences == Cardinality(ShallAt(TextOf(req)))
        IN  /\ found # <<>> <=> occurrences > 1
            /\ \A n \in 1..Len(found) :
                   /\ found[n].severity = "warning"
                   /\ found[n].message.count = occurrences

(***************************************************************************)
(* Properties of the instance check.                                        *)
(***************************************************************************)
\* validate_instance has returned a validation object
Validated == pc = "validated" /\ ~validation.raised

\* the indices of the issues of a severity
IndicesOfSeverity(issues, sev) == {n \in 1..Len(issues) : issues[n].severity = sev}

\* C16 as stated: when the value of applicable_requirements is not a list the
\* result holds an INSTANCE_APPLICABLE_NOT_LIST issue of severity error and has
\* overall_status fail; for every entry of the list that is not an object the
\* result holds an INSTANCE_REQ_NOT_OBJECT issue of severity error.
C16_StructuralErrors ==
    Validated =>
        LET not_list == WithCode(validation.issues, Code("INSTANCE_APPLICABLE_NOT_LIST"))
            not_object == WithCode(validation.issues, Code("INSTANCE_REQ_NOT_OBJECT"))
        IN  /\ v_instance.t \notin {"list", "absent"} =>
                   /\ Len(not_list) = 1
                   /\ not_list[1].severity = "error"
                   /\ validation.overall_status = "fail"
            /\ v_instance.t = "list" =>
                   /\ Len(not_object) =
                          Cardinality({n \in 1..Len(v_instance.s) : v_instance.s[n].t # "dict"})
                   /\ \A n \in 1..Len(not_object) : not_object[n].severity = "error"

\* C16, what holds of the code instead: the structural issue is raised only
\* for a value that is not a list and is true; null, zero, an empty string and
\* an empty dict are taken for an empty list.
C16_StructuralErrorsWhenTrue ==
    Validated =>
        LET not_list == WithCode(validation.issues, Code("INSTANCE_APPLICABLE_NOT_LIST"))
            not_object == WithCode(validation.issues, Code("INSTANCE_REQ_NOT_OBJECT"))
        IN  /\ IF v_instance.t \notin {"list", "absent", "null"} /\ v_instance.n # 0
               THEN /\ Len(not_list) = 1
                    /\ not_list[1].severity = "error"
                    /\ validation.overall_status = "fail"
               ELSE not_list = <<>>
            /\ v_instance.t = "list" =>
                   /\ Len(not_object) =
                          Cardinality({n \in 1..Len(v_instance.s) : v_instance.s[n].t # "dict"})
                   /\ \A n \in 1..Len(not_object) : not_object[n].severity = "error"

\* C17: overall_status is fail iff an issue has severity error, pass
\* otherwise (warnings alone leave it pass); error_count, warning_count and
\* info_count are the numbers of issues of that severity; issue_count is the
\* length of the issue list and the sum of the three counts.
C17_StatusAndCounts ==
    Validated =>
        /\ validation.overall_status \in {"pass", "fail"}
        /\ validation.overall_status = "fail" <=>
               \E n \in 1..Len(validation.issues) : validation.issues[n].severity = "error"
        /\ validation.error_count = Cardinality(IndicesOfSeverity(validation.issues, "error"))
        /\ validation.warning_count =
               Cardinality(IndicesOfSeverity(validation.issues, "warning"))
        /\ validation.info_count = Cardinality(IndicesOfSeverity(validation.issues, "info"))
        /\ validation.issue_count = Len(validation.issues)
        /\ validation.issue_count =
               validation.error_count + validation.warning_count + validation.info_count

\* an instance whose only issue is the warning REQ_PLACEHOLDER_TBD passes
C17_Witness ==
    /\ Validated
    /\ Codes(validation.issues) = <<Code("REQ_PLACEHOLDER_TBD")>>
    /\ validation.warning_count = 1
    /\ validation.overall_status = "pass"

\* C18 as stated: validate_instance returns a validation result for every
\* instance, its entries with fields of the wrong type included; no exception
\* escapes.
C18_AlwaysReturns ==
    pc = "validated" => ~validation.raised

(***************************************************************************)
(* Properties of the aggregator.                                            *)
(***************************************************************************)
\* the (severity, code) pairs that occur in the issues
Pairs(issues) == {KeyOf(issues[n]) : n \in 1..Len(issues)}

\* the issues of a pair, in the order of the list
IssuesOf(issues, pair) == SelectSeq(issues, LAMBDA i : KeyOf(i) = pair)

\* a list without the elements that occurred before in it
RECURSIVE Distinct(_)
Distinct(l) ==
    IF l = <<>> THEN <<>>
    ELSE LET front == Distinct(SubSeq(l, 1, Len(l) - 1))
         IN  IF \E n \in 1..Len(front) : front[n] = l[Len(l)]
             THEN front ELSE Append(front, l[Len(l)])

\* the messages of a list of issues that are not empty, in order
MessagesOf(issues) ==
    LET with_msg == SelectSeq(issues, LAMBDA i : i.message.wording # "")
    IN  [n \in 1..Len(with_msg) |-> with_msg[n].message]

\* by_code has one group for every pair, with the count of its issues and the
\* sorted list of the distinct identifiers that own them
GroupsCountsAndOwners ==
    /\ Len(by_code) = Cardinality(Pairs(rep_issues))
    /\ \A pair \in Pairs(rep_issues) :
          \E n \in 1..Len(by_code) : <<by_code[n].severity, by_code[n].code>> = pair
    /\ \A n \in 1..Len(by_code) :
          LET mine == IssuesOf(rep_issues, <<by_code[n].severity, by_code[n].code>>)
              ids == by_code[n].requirement_ids
          IN  /\ by_code[n].count = Len(mine)
              /\ by_code[n].count >= 1
              /\ Elems(ids) =
                     {mine[k].requirement_id.s :
                         k \in {j \in 1..Len(mine) : mine[j].requirement_id.t = "str"}}
              /\ \A k \in 1..(Len(ids) - 1) : StrLess(ids[k], ids[k + 1])

\* C19 as stated: build_report makes one group for every (severity, code) pair
\* of the issues, with the count of the issues of the pair, the sorted list of
\* the distinct identifiers owning them, and as message_examples the first
\* three distinct messages of those issues (all when there are fewer) in the
\* order encountered.
C19_GroupsWithDistinctExamples ==
    pc = "reported" =>
        /\ GroupsCountsAndOwners
        /\ \A n \in 1..Len(by_code) :
              LET mine == IssuesOf(rep_issues, <<by_code[n].severity, by_code[n].code>>)
                  distinct == Distinct(MessagesOf(mine))
              IN  by_code[n].message_examples =
                      SubSeq(distinct, 1, IF Len(distinct) < 3 THEN Len(distinct) ELSE 3)

\* C19, what holds of the code instead: message_examples holds the first three
\* messages of the group, a repeated message as often as it comes.
C19_GroupsWithFirstExamples ==
    pc = "reported" =>
        /\ GroupsCountsAndOwners
        /\ \A n \in 1..Len(by_code) :
              LET mine == IssuesOf(rep_issues, <<by_code[n].severity, by_code[n].code>>)
                  all == MessagesOf(mine)
              IN  by_code[n].message_examples =
                      SubSeq(all, 1, IF Len(all) < 3 THEN Len(all) ELSE 3)

\* the precedence of a severity: error, warning, info, then every other one
SeverityPrecedence(sev) ==
    LET known == <<"error", "warning", "info">>
    IN  IF \E k \in 1..Len(known) : known[k] = sev
        THEN CHOOSE k \in 1..Len(known) : known[k] = sev
        ELSE Len(known) + 1

\* the (severity, code) pairs of a by_code list, in its order
KeysOf(groups) == [n \in 1..Len(groups) |-> <<groups[n].severity, groups[n].code>>]

\* the list l with its elements at a and b exchanged
Swap(l, a, b) ==
    [n \in 1..Len(l) |-> IF n = a THEN l[b] ELSE IF n = b THEN l[a] ELSE l[n]]

\* the index of the first issue of a pair
FirstIssueOf(issues, pair) ==
    CHOOSE n \in 1..Len(issues) :
        /\ KeyOf(issues[n]) = pair
        /\ \A k \in 1..(n - 1) : KeyOf(issues[k]) # pair

\* two groups of by_code have the same precedence and the same code
Tie ==
    \E a \in 1..Len(by_code) : \E b \in 1..Len(by_code) :
        /\ a # b
        /\ SeverityPrecedence(by_code[a].severity) = SeverityPrecedence(by_code[b].severity)
        /\ by_code[a].code = by_code[b].code

\* by_code is in the order of severity precedence and, within one precedence,
\* of the code
OrderedByPrecedenceThenCode ==
    \A n \in 1..(Len(by_code) - 1) :
        LET g == by_code[n]
            h == by_code[n + 1]
        IN  \/ SeverityPrecedence(g.severity) < SeverityPrecedence(h.severity)
            \/ /\ SeverityPrecedence(g.severity) = SeverityPrecedence(h.severity)
               /\ (StrLess(g.code, h.code) \/ g.code = h.code)

\* exchanging two issues of the instance leaves the order of by_code as it is
\* (every reordering of the issues is a sequence of such exchanges)
OrderIndependent ==
    \A a \in 1..Len(rep_issues) : \A b \in (a + 1)..Len(rep_issues) :
        KeysOf(build_report(Swap(rep_issues, a, b))) = KeysOf(by_code)

\* C20 as stated: by_code is ordered by severity precedence (error, warning,
\* info, every unknown severity after them) and within one precedence by code
\* ascending, and its order does not depend on the order of the issues in the
\* instance.
C20_OrderIndependentOfIssues ==
    pc = "reported" =>
        /\ OrderedByPrecedenceThenCode
        /\ OrderIndependent

\* C20 amended: by_code is ordered by severity precedence and within one
\* precedence by code ascending; groups of different unknown severities and
\* the same code are in the order in which their first issues come in the
\* instance; the order of by_code does not depend on the order of the issues
\* unless there are such groups.
C20_OrderedTiesByFirstIssue ==
    pc = "reported" =>
        /\ OrderedByPrecedenceThenCode
        /\ \A n \in 1..(Len(by_code) - 1) :
              LET g == by_code[n]
                  h == by_code[n + 1]
              IN  (SeverityPrecedence(g.severity) = SeverityPrecedence(h.severity)
                      /\ g.code = h.code)
                  => /\ SeverityPrecedence(g.severity) > SeverityPrecedence("info")
                     /\ FirstIssueOf(rep_issues, <<g.severity, g.code>>)
                            < FirstIssueOf(rep_issues, <<h.severity, h.code>>)
        /\ ~Tie => OrderIndependent

\* four issues, the second of the severity x and the fourth without severity:
\* the group of the errors comes first, then the group of severity info, and
\* the two groups of unknown severity and the code A last, in the order of
\* their first issues
C20_Witness ==
    /\ pc = "reported"
    /\ Len(rep_issues) = 4
    /\ rep_issues[2].severity = "x"
    /\ rep_issues[4].severity = NoKey
    /\ KeysOf(by_code) =
           <<<<"error", <<"A">>>>, <<"info", <<"B">>>>, <<"x", <<"A">>>>, <<"unknown", <<"A">>>>>>

(***************************************************************************)
(* Properties of the order of the issues of an instance.                    *)
(***************************************************************************)
\* the issue is one of the two structural issues
IsStructural(i) ==
    i.code \in {Code("INSTANCE_APPLICABLE_NOT_LIST"), Code("INSTANCE_REQ_NOT_OBJECT")}

\* C25 as stated: in the issue list validate_instance returns every
\* structural issue (INSTANCE_APPLICABLE_NOT_LIST, INSTANCE_REQ_NOT_OBJECT)
\* comes before every issue of a requirement.
C25_StructuralIssuesFirst ==
    Validated =>
        \A m \in 1..Len(validation.issues) : \A n \in 1..Len(validation.issues) :
            (IsStructural(validation.issues[n]) /\ ~IsStructural(validation.issues[m]))
                => n < m

\* C25, what holds of the code instead: INSTANCE_APPLICABLE_NOT_LIST is the
\* only issue of its list, since no entry is checked after it; an
\* INSTANCE_REQ_NOT_OBJECT issue is in the place of its entry, after the
\* issues of the entries before it.
C25_NotListIssueAlone ==
    Validated =>
        ((\E n \in 1..Len(validation.issues) :
             validation.issues[n].code = Code("INSTANCE_APPLICABLE_NOT_LIST"))
            => Len(validation.issues) = 1)

(***************************************************************************)
(* Properties of the report as a whole.                                     *)
(***************************************************************************)
\* the sum of the counts of the groups of by_code
GroupCountSum == Sum([n \in 1..Len(by_code) |-> by_code[n].count])

\* C21: for every instance the counts of the groups of by_code add up to the
\* issue_count of the validation result of the instance, and the
\* counts.issue_count of the report is that same number.
C21_GroupCountsAddUp ==
    pc = "reported" =>
        /\ GroupCountSum = rep_instance.validation.issue_count
        /\ report.counts.issue_count = rep_instance.validation.issue_count
        /\ rep_instance.validation.issue_count = Len(rep_issues)

\* four issues in three groups, one of them of severity info
C21_Witness ==
    /\ pc = "reported"
    /\ rep_instance.validated
    /\ Len(by_code) = 3
    /\ report.counts.issue_count = 4
    /\ report.counts.info_count = 1

C23_TagInferenceNoEffect ==
    pc = "reported" =>
        \A top \in RepTops :
            LET other == [rep_instance EXCEPT !.top = top]
            IN  /\ ReportHead(other).overall_status = report.overall_status
                /\ ReportHead(other).counts = report.counts
                /\ build_report(other.validation.issues) = by_code

\* a passing instance without tag, while other enumerated instances with the
\* same validation result have one
C23_Witness ==
    /\ pc = "reported"
    /\ rep_instance.validated
    /\ report.overall_status = "pass"
    /\ report.counts.warning_count = 2
    /\ report.tag = Null
    /\ \E top \in RepTops : ReportHead([rep_instance EXCEPT !.top = top]).tag # Null

(***************************************************************************)
(* Properties of the instance identifier.                                   *)
(***************************************************************************)
\* a value that gives a tag: not None, and not empty once trimmed
Usable(v) == v.t # "null" /\ Strip(PyStr(v)) # <<>>

\* the designated tag field: the tag_field argument, <component>_tag without
DesignatedField ==
    IF Truthy(args.tag_field) THEN args.tag_field.s ELSE args.component \o TAG_SUFFIX

\* the fields of the profile whose name ends with _tag and whose value gives a tag
UsableTagFields == {k \in DOMAIN profile : EndsWith(k, TAG_SUFFIX) /\ Usable(profile[k])}

\* C27 as stated: instance_id is "<tag>-requirements"; the tag is the trimmed
\* string of the value of the designated tag field when that value is usable,
\* otherwise that of the smallest field ending with _tag that has a usable
\* value; it is the upper-cased component name only when the profile has no
\* tag field with a usable value.
C27_InstanceIdFromTag ==
    pc = "done" =>
        instance.instance_id =
            (IF Usable(Get(profile, DesignatedField))
             THEN Strip(PyStr(Get(profile, DesignatedField)))
             ELSE IF UsableTagFields # {}
                  THEN Strip(PyStr(profile[SortedStrings(UsableTagFields)[1]]))
                  ELSE Upper(args.component)) \o REQUIREMENTS_SUFFIX

\* C27, what holds of the code instead: a designated field whose value is
\* neither None nor "" decides alone, a blank value included, and then gives
\* the placeholder; otherwise the smallest field ending with _tag whose value
\* is true decides, a blank value included.
C27_InstanceIdWithoutTrimmedTest ==
    pc = "done" =>
        LET designated == Get(profile, DesignatedField)
            true_fields ==
                {k \in DOMAIN profile : EndsWith(k, TAG_SUFFIX) /\ Truthy(profile[k])}
            chosen ==
                IF designated \notin {Null, StrV(<<>>)} THEN designated
                ELSE IF true_fields # {} THEN profile[SortedStrings(true_fields)[1]]
                ELSE Null
        IN  instance.instance_id =
                (IF Usable(chosen) THEN Strip(PyStr(chosen)) ELSE Upper(args.component))
                    \o REQUIREMENTS_SUFFIX

(***************************************************************************)
(* Properties of the batch entry point.                                     *)
(***************************************************************************)
\* the number of warnings among the issues of the instance
WarningsOfInstance ==
    Cardinality(IndicesOfSeverity(instance.validation.issues, "warning"))

\* the three conditions of the gate
StrictFails == cli_args.strict /\ instance.validation.overall_status # "pass"
WarningsFail == cli_args.fail_on_warnings /\ WarningsOfInstance > 0
TooManyWarnings ==
    cli_args.max_warnings # Null /\ WarningsOfInstance > cli_args.max_warnings.n

\* C26: main returns 2 when the status is not pass under --strict, else 3 when
\* there is a warning under --fail-on-warnings, else 4 when the warnings exceed
\* --max-warnings, else 0; so the code is not 0 exactly when one of the three
\* conditions holds; and the instance file is written before the code is
\* decided, whatever the code.
C26_ExitCode ==
    /\ pc = "exited" =>
          /\ cli_out.code =
                 (IF StrictFails THEN 2
                  ELSE IF WarningsFail THEN 3
                  ELSE IF TooManyWarnings THEN 4 ELSE 0)
          /\ cli_out.code # 0 <=> (StrictFails \/ WarningsFail \/ TooManyWarnings)
    /\ cli_out.code # NoCode =>
          /\ cli_out.written # <<>>
          /\ cli_out.written[1] = "out"
    /\ pc = "reports written" => cli_out.code = NoCode /\ cli_out.written[1] = "out"

\* a failing instance with a warning under --strict and --fail-on-warnings:
\* the code is 2, the instance file and both reports are written
C26_Witness ==
    /\ pc = "exited"
    /\ cli_args.strict
    /\ cli_args.fail_on_warnings
    /\ cli_args.max_warnings = IntV(0)
    /\ instance.validation.overall_status = "fail"
    /\ WarningsOfInstance > 0
    /\ cli_out.code = 2
    /\ cli_out.written = <<"out", "report_json", "report_csv">>

(***************************************************************************)
(* Properties of concurrent derivations.                                    *)
(***************************************************************************)
\* C24: filter_and_instantiate leaves its template and its profile as they
\* are, and under every interleaving of the steps of two concurrent calls each
\* call returns the instance it returns when run alone, the time aside.
C24_ConcurrentCallsIndependent ==
    /\ [](\A i \in DOMAIN runs :
             runs[i].pc = "done" =>
                 runs[i].instance =
                     filter_and_instantiate(runs[i].template, runs[i].profile, runs[i].args,
                                   runs[i].instance.generated_utc))
    /\ [][\A i \in DOMAIN runs :
             /\ runs'[i].template = runs[i].template
             /\ runs'[i].profile = runs[i].profile
             /\ runs'[i].args = runs[i].args]_vars

\* two calls with different templates and profiles: the first has returned an
\* instance of two requirements without open name, while the second is in its
\* loop and has found a name without value
C24_Witness ==
    /\ pc = "concurrent"
    /\ runs[1].pc = "done"
    /\ runs[2].pc = "loop"
    /\ runs[1].template # runs[2].template
    /\ runs[1].profile # runs[2].profile
    /\ runs[1].instance.summary.applicable_count = 2
    /\ runs[1].instance.summary.tbd_parameter_count = 0
    /\ runs[2].tbd_params_total # {}

\* the single call of the derivation returns the instance of a call run alone
DerivationIsCallAlone ==
    pc = "done" => instance = filter_and_instantiate(template, profile, args, instance.generated_utc)

(***************************************************************************)
(* Properties of the agent in manual mode.                                  *)
(***************************************************************************)
\* the first required field that has no value or a blank one, None when every
\* required field has a value
FirstMissing(sc, p) ==
    LET open == {i \in 1..Len(sc.required) :
                    \/ sc.required[i] \notin DOMAIN p
                    \/ p[sc.required[i]] = Null
                    \/ (p[sc.required[i]].t = "str" /\ Strip(p[sc.required[i]].s) = <<>>)}
    IN  IF open = {} THEN Null
        ELSE StrV(sc.required[CHOOSE i \in open : \A j \in open : i <= j])

\* whether apply_patch rejects a text for a field: the schema does not have
\* the field or coerce_value gives an error
Rejected(sc, field, user_text) ==
    field \notin DOMAIN sc.props \/ coerce_value(sc, field, user_text).err # NoErr

\* C28: in manual mode, while a field is pending, a reply apply_patch rejects
\* leaves the profile as it is and the field pending; a reply it accepts is
\* stored coerced under the field and the first required field still missing
\* becomes pending, or none; when no field is pending apply_user_text leaves
\* the profile as it is and the first missing required field becomes pending.
C28_ManualReply ==
    [][outcome'.op = "apply_user_text" =>
          LET field == agent.pending
              reply == StrV(outcome'.text)
          IN  IF field # Null
              THEN IF Rejected(schema, field.s, reply)
                   THEN agent'.profile = agent.profile /\ agent'.pending = field
                   ELSE /\ agent'.profile =
                              SetKey(agent.profile, field.s,
                                     coerce_value(schema, field.s, reply).val)
                        /\ agent'.pending = FirstMissing(schema, agent'.profile)
              ELSE /\ agent'.profile = agent.profile
                   /\ agent'.pending = FirstMissing(schema, agent.profile)]_vars

\* the agent has stored the reply " 2", stripped, as the value of the
\* enumerated field, the tag is set, and it now asks for the number x
C28_Witness ==
    /\ outcome.op = "apply_user_text"
    /\ outcome.field = StrV(KeyK)
    /\ outcome.text = <<" ", "2">>
    /\ Get(agent.profile, KeyK) = StrV(<<"2">>)
    /\ Get(agent.profile, VALVE_TAG) # Null
    /\ agent.pending = StrV(KeyX)

\* C29: in manual mode, from any state the agent can be in, once every text
\* given to apply_user_text is a value apply_patch stores, not None, for the
\* field asked, at most one call more than there are required fields leaves
\* no required field missing and no field pending.
C29_CompleteAfterAnswers ==
    streak >= Len(schema.required) + 1 =>
        FirstMissing(schema, agent.profile) = Null /\ agent.pending = Null

\* the agent with three required fields has completed its profile with the
\* fourth answer in a row: one call to be asked the first field, three values
C29_Witness ==
    /\ Len(schema.required) = 3
    /\ streak = 4
    /\ outcome.op = "apply_user_text"
    /\ outcome.said = "complete"
    /\ outcome.field = StrV(KeyX)
    /\ agent.pending = Null

\* every enumerated field of a profile that is set holds one of its allowed
\* values
EnumsAllowed(sc, p) ==
    \A k \in DOMAIN sc.props :
        (sc.props[k].enum.t = "list" /\ k \in DOMAIN p /\ p[k] # Null) =>
            /\ p[k].t = "str"
            /\ \E i \in 1..Len(sc.props[k].enum.s) : sc.props[k].enum.s[i] = p[k].s

\* C30: after any sequence of apply_user_text, set_field and reset,
\* run_and_package derives an instance and writes a package only when no
\* required field is missing or blank and every enumerated field that is set
\* holds an allowed value; otherwise it raises ValueError, writes nothing and
\* leaves the profile and the pending field as they are.
C30_PackageOnlyWhenOk ==
    [][outcome'.op = "run_and_package" =>
          /\ agent' = agent
          /\ IF FirstMissing(schema, agent.profile) = Null
                   /\ EnumsAllowed(schema, agent.profile)
             THEN /\ ~outcome'.raised
                  /\ Len(packages') = Len(packages) + 1
                  /\ packages'[Len(packages')].profile = agent.profile
                  /\ packages'[Len(packages')].instance.profile = agent.profile
                  /\ packages'[Len(packages')].files = PACKAGE_FILES
             ELSE /\ outcome'.raised
                  /\ outcome'.said = "ValueError"
                  /\ packages' = packages]_vars

\* the agent has written the package of the profile with tag " 2", k "1" and
\* x 2.0 for the template of two requirements: both apply, the second keeps
\* {{y}}
C30_Witness ==
    /\ outcome.op = "run_and_package"
    /\ ~outcome.raised
    /\ Len(packages) = 1
    /\ packages[1].valve_tag = StrV(<<" ", "2">>)
    /\ Get(packages[1].profile, KeyK) = StrV(<<"1">>)
    /\ Get(packages[1].profile, KeyX) = FloatV(2)
    /\ packages[1].instance.instance_id = <<"2">> \o REQUIREMENTS_SUFFIX
    /\ packages[1].instance.summary =
           [applicable_count |-> 2, non_applicable_count |-> 0, tbd_parameter_count |-> 1]
    /\ packages[1].instance.applicable_requirements[2].text =
           <<"2", ".", "0", "{", "{", "y", "}", "}">>
    /\ packages[1].instance.validation.overall_status = "pass"
    /\ packages[1].instance.validation.warning_count = 2

====
